---- MODULE Spec2Model ----
(***************************************************************************)
(* Verification model of the envkey access-control and secret-lifecycle    *)
(* engine.                                                                 *)
(*                                                                         *)
(* Part I  (SpecApi):  the keyable-parent API handlers of                  *)
(*   src/public/app/api/shared/src/api_handlers/keyable_parents.ts         *)
(*   (CREATE_SERVER, DELETE_SERVER, CREATE_LOCAL_KEY, DELETE_LOCAL_KEY,    *)
(*   GENERATE_KEY, REVOKE_KEY) run through the action pipeline.            *)
(* Part II (SpecCore): the local core process of                           *)
(*   src/public/app/client/core_process/src/server.ts                      *)
(*   (POST /action, GET /state, device lock, lockout timer, local socket). *)
(***************************************************************************)
EXTENDS Integers, Sequences, FiniteSets, TLC

(***************************************************************************)
(* Bounds of the model.                                                    *)
(***************************************************************************)
\* number of uuid()s the API may draw (graph node ids 1..MaxUuid)
MaxUuid == 3
\* the same, for the runs of the scenario "org has maxServerEnvkeys = 1"
MaxUuidQuota1 == 4
\* largest finite license.maxServerEnvkeys tried (the license also takes -1)
MaxLicense == 1

(***************************************************************************)
(* Part I : state of the API                                               *)
(***************************************************************************)
VARIABLES
    orgGraph,          \* Api.Graph.OrgGraph : id -> node (the committed graph)
    nextUuid,          \* the next value uuid() returns
    uuidLimit,         \* the last value uuid() returns in this run
    maxServerEnvkeys,  \* auth.license.maxServerEnvkeys
    txn                \* the action in the pipeline and its handler result

apiVars == <<orgGraph, nextUuid, uuidLimit, maxServerEnvkeys, txn>>

\* the state of the local core process (Part II)
VARIABLES
    locked,          \* isLocked() of the key store
    reduxStore,      \* the in-memory store, or NoStore when undefined
    persisted,       \* the state on disk that getPersistedState() returns
    lockoutTimeout,  \* 0, or the time at which the armed lockout timer is due
    clock,           \* Date.now()
    orgSocketsOpen,  \* the org sockets are connected
    pending,         \* POST /action requests awaiting their dispatchPromise
    lastSocketMsg,   \* the last message sent on the local socket
    lastResponse,    \* the last HTTP response sent
    running          \* the process has not been told to stop

coreVars == <<locked, reduxStore, persisted, lockoutTimeout, clock,
              orgSocketsOpen, pending, lastSocketMsg, lastResponse, running>>

\* the state of the client's dispatch of serial actions (Part III)
VARIABLES
    serialQueue,     \* the dispatched actions not yet started, in arrival order
    serialRunning,   \* the actions started and not yet finished
    serialDone,      \* the actions finished, each with its outcome
    nextArrival      \* the arrival number of the next dispatched action

serialVars == <<serialQueue, serialRunning, serialDone, nextArrival>>

\* the arguments and the result of a computation of access scopes (Part IV)
VARIABLES
    scopeArgs,       \* the scopes the group lookups return: <<A, B, C>>
    scopeResult      \* the last scope computed, with what computed it

scopeVars == <<scopeArgs, scopeResult>>

\* the client's graph of block connections and the last action on it (Part V)
VARIABLES
    userGraph,       \* Client.Graph.UserGraph : id -> connection object
    blocksOut        \* what the last dispatched block action produced

blocksVars == <<userGraph, blocksOut>>

\* the local socket server and its clients (Part VI)
VARIABLES
    wssClients,      \* wss.clients, in the order the clients connected
    readyState,      \* the readyState of each client's connection
    inbox,           \* the notifications each client has received, in order
    socketLog        \* per notification sent: its type, who was OPEN then

socketVars == <<wssClients, readyState, inbox, socketLog>>

\* the lockout timer in the event loop (Part VII)
VARIABLES
    timerNow,         \* Date.now()
    eventLoopTimers,  \* the setTimeout callbacks pending: [id, due]
    lockoutHandle,    \* the variable lockoutTimeout: 0, or a timer's id
    resolving,        \* resolveLockoutTimer() calls suspended at their await
    keyLocked,        \* isLocked()
    activeAt,         \* state.lastActiveAt
    nextTimerId       \* the handle the next setTimeout returns

timerVars == <<timerNow, eventLoopTimers, lockoutHandle, resolving, keyLocked,
               activeAt, nextTimerId>>

\* auth.org.id
OrgId == 0

\* payload.envkeyIdPart values a client may send: strings of seven characters
\* that share their first six
EnvkeyIdParts ==
    { <<1, 1, 1, 1, 1, 1, 1>>, <<1, 1, 1, 1, 1, 1, 2>> }

\* the auth contexts of the callers: u1 holds the role that manages keyable
\* parents, u2 does not; u1 calls with a device token or with a CLI key
Auths ==
    { [userId |-> "u1", type |-> "tokenAuthContext", deviceId |-> "d1"],
      [userId |-> "u1", type |-> "cliUserAuthContext", deviceId |-> "none"],
      [userId |-> "u2", type |-> "tokenAuthContext", deviceId |-> "d2"] }

\* the environment of the org's one app, and an id that names no environment
Environments == {"env1"}
EnvironmentIds == {"env1", "envX"}

KeyableParentTypes == {"server", "localKey"}


\* the value of a field that is undefined
Undefined == "undefined"

(***************************************************************************)
(* Library helpers the handlers call.                                      *)
(***************************************************************************)
\* sha256(envkeyIdPart): a collision-free digest, never the part itself
sha256(s) == <<"sha256">> \o s

\* String.prototype.substr(0, n)
substr0(s, n) == SubSeq(s, 1, IF Len(s) < n THEN Len(s) ELSE n)

\* "envkey|" + envkeyIdPart
EnvkeyPkey(envkeyIdPart) == <<"envkey|">> \o envkeyIdPart

MaxOf(S) == CHOOSE x \in S : \A y \in S : y <= x

\* the generatedEnvkey nodes with no delete marker
getActiveGeneratedEnvkeys(graph) ==
    { id \in DOMAIN graph :
        graph[id].type = "generatedEnvkey" /\ ~graph[id].deletedAt }

\* R.indexBy(keyableParentId) over the active envkeys: parent id -> envkey id
\* (of several envkeys of one parent the index keeps the last inserted)
getActiveGeneratedEnvkeysByKeyableParentId(graph) ==
    LET active == getActiveGeneratedEnvkeys(graph)
    IN  [ p \in { graph[id].keyableParentId : id \in active } |->
            MaxOf({ id \in active : graph[id].keyableParentId = p }) ]

\* Object.values(getActiveGeneratedEnvkeysByKeyableParentId(orgGraph)).length
NumActive(graph) ==
    Cardinality(DOMAIN getActiveGeneratedEnvkeysByKeyableParentId(graph))

\* deleteGraphObjects(graph, ids, now): sets the delete marker of the nodes and
\* takes the server envkeys it retires off the org's counter
deleteGraphObjects(graph, ids) ==
    LET retired == { id \in ids \cap getActiveGeneratedEnvkeys(graph) :
                        graph[id].keyableParentType = "server" }
    IN  [ id \in DOMAIN graph |->
            IF id \in ids THEN [graph[id] EXCEPT !.deletedAt = TRUE]
            ELSE IF id = OrgId
                 THEN [graph[id] EXCEPT
                         !.serverEnvkeyCount = @ - Cardinality(retired)]
                 ELSE graph[id] ]

\* produce(orgGraph, getDeleteKeyableParentProducer(id, now)): the parent and
\* its active envkey, if it has one, are deleted together
getDeleteKeyableParentProducer(graph, id) ==
    LET byParent == getActiveGeneratedEnvkeysByKeyableParentId(graph)
    IN  deleteGraphObjects(
            graph,
            {id} \cup (IF id \in DOMAIN byParent THEN {byParent[id]} ELSE {}))

(***************************************************************************)
(* authz: the RBAC evaluator.                                              *)
(***************************************************************************)
\* the user holds a role granting the "manage keyable parents" capability
HasManageCapability(userId) == userId = "u1"

IsActiveNode(graph, id, types) ==
    /\ id \in DOMAIN graph
    /\ graph[id].type \in types
    /\ ~graph[id].deletedAt

canCreateServer(graph, userId, environmentId) ==
    HasManageCapability(userId) /\ environmentId \in Environments

canCreateLocalKey(graph, userId, environmentId) ==
    HasManageCapability(userId) /\ environmentId \in Environments

canDeleteServer(graph, userId, id) ==
    HasManageCapability(userId) /\ IsActiveNode(graph, id, {"server"})

canDeleteLocalKey(graph, userId, id) ==
    HasManageCapability(userId) /\ IsActiveNode(graph, id, {"localKey"})

canGenerateKey(graph, userId, keyableParentId) ==
    HasManageCapability(userId)
        /\ IsActiveNode(graph, keyableParentId, KeyableParentTypes)

canRevokeKey(graph, userId, generatedEnvkeyId) ==
    HasManageCapability(userId)
        /\ IsActiveNode(graph, generatedEnvkeyId, {"generatedEnvkey"})

(***************************************************************************)
(* The keyable-parent handlers.  Each graphAuthorizer is a predicate of    *)
(* (payload, graph, auth, license); each graphHandler maps (payload,       *)
(* graph, auth, uuid) to its GraphHandlerResult.  The opaque payload       *)
(* fields copied into the nodes (name, appId, pubkey, encryptedPrivkey,    *)
(* signedTrustedRoot), the timestamps and the logTargetIds are left out.   *)
(***************************************************************************)
\* { ...orgGraph, [id]: node }
Assoc(graph, id, node) ==
    [ i \in DOMAIN graph \cup {id} |-> IF i = id THEN node ELSE graph[i] ]

\* the length of envkeyShort
EnvkeyShortLen == 6

\* CREATE_SERVER graphAuthorizer that checks the license and not the permission
CreateServerAuthorizerQuotaOnly(payload, graph, auth, license) ==
    ~(license # -1 /\ NumActive(graph) >= license)

\* a CREATE_SERVER graphAuthorizer without the license check
CreateServerAuthorizerIgnoresLicense(payload, graph, auth, license) ==
    canCreateServer(graph, auth.userId, payload.environmentId)

CreateServerAuthorizer(payload, graph, auth, license) ==
    LET numActive == NumActive(graph)
    IN  IF license # -1 /\ numActive >= license
        THEN FALSE
        ELSE canCreateServer(graph, auth.userId, payload.environmentId)

\* CREATE_SERVER graphHandler that also counts the server on the org node
CreateServerHandlerCountsOnOrg(payload, graph, auth, id) ==
    LET server == [ type |-> "server",
                    environmentId |-> payload.environmentId,
                    deletedAt |-> FALSE ]
    IN  [ graph |-> [ Assoc(graph, id, server) EXCEPT
                        ![OrgId].serverEnvkeyCount = @ + 1 ],
          createdId |-> id,
          hardDeleteScopes |-> << >>,
          clearEnvkeySockets |-> << >> ]

CreateServerHandler(payload, graph, auth, id) ==
    LET server == [ type |-> "server",
                    environmentId |-> payload.environmentId,
                    deletedAt |-> FALSE ]
    IN  [ graph |-> Assoc(graph, id, server),
          createdId |-> id,
          hardDeleteScopes |-> << >>,
          clearEnvkeySockets |-> << >> ]

\* mutant: the parent is deleted without the cascade to its active envkey
DeleteKeyableParentHandlerNoCascade(payload, graph, auth, id) ==
    [ graph |-> deleteGraphObjects(graph, {payload.id}),
      createdId |-> Undefined,
      hardDeleteScopes |-> << >>,
      clearEnvkeySockets |-> << >> ]

DeleteServerAuthorizer(payload, graph, auth, license) ==
    canDeleteServer(graph, auth.userId, payload.id)

\* DELETE_SERVER and DELETE_LOCAL_KEY share this body
DeleteKeyableParentHandler(payload, graph, auth, id) ==
    LET byParent == getActiveGeneratedEnvkeysByKeyableParentId(graph)
        hasEnvkey == payload.id \in DOMAIN byParent
    IN  [ graph |-> getDeleteKeyableParentProducer(graph, payload.id),
          createdId |-> Undefined,
          hardDeleteScopes |->
              IF hasEnvkey
              THEN << EnvkeyPkey(graph[byParent[payload.id]].envkeyIdPart) >>
              ELSE << >>,
          clearEnvkeySockets |->
              IF hasEnvkey THEN << byParent[payload.id] >> ELSE << >> ]

DeleteServerHandler(payload, graph, auth, id) ==
    DeleteKeyableParentHandler(payload, graph, auth, id)

CreateLocalKeyAuthorizer(payload, graph, auth, license) ==
    IF auth.type # "tokenAuthContext"
    THEN FALSE
    ELSE canCreateLocalKey(graph, auth.userId, payload.environmentId)

CreateLocalKeyHandler(payload, graph, auth, id) ==
    LET localKey == [ type |-> "localKey",
                      environmentId |-> payload.environmentId,
                      userId |-> auth.userId,
                      deviceId |-> auth.deviceId,
                      deletedAt |-> FALSE ]
    IN  [ graph |-> Assoc(graph, id, localKey),
          createdId |-> id,
          hardDeleteScopes |-> << >>,
          clearEnvkeySockets |-> << >> ]

DeleteLocalKeyAuthorizer(payload, graph, auth, license) ==
    canDeleteLocalKey(graph, auth.userId, payload.id)

DeleteLocalKeyHandler(payload, graph, auth, id) ==
    DeleteKeyableParentHandler(payload, graph, auth, id)

\* mutant: the quota comparison is off by one (> for >=)
GenerateKeyAuthorizerOffByOne(payload, graph, auth, license) ==
    LET byParent == getActiveGeneratedEnvkeysByKeyableParentId(graph)
        numActive == Cardinality(DOMAIN byParent)
        existingEnvkey == payload.keyableParentId \in DOMAIN byParent
    IN  IF /\ payload.keyableParentType = "server"
           /\ license # -1
           /\ numActive - (IF existingEnvkey THEN 1 ELSE 0) > license
        THEN FALSE
        ELSE canGenerateKey(graph, auth.userId, payload.keyableParentId)

GenerateKeyAuthorizer(payload, graph, auth, license) ==
    LET byParent == getActiveGeneratedEnvkeysByKeyableParentId(graph)
        numActive == Cardinality(DOMAIN byParent)
        existingEnvkey == payload.keyableParentId \in DOMAIN byParent
    IN  IF /\ payload.keyableParentType = "server"
           /\ license # -1
           /\ numActive - (IF existingEnvkey THEN 1 ELSE 0) >= license
        THEN FALSE
        ELSE canGenerateKey(graph, auth.userId, payload.keyableParentId)

\* the node of a generateKey that always signs with the user id
NewGeneratedEnvkeySignedByUser(graph, auth, payload) ==
    LET keyableParent == graph[payload.keyableParentId]
        isToken == auth.type = "tokenAuthContext"
        isLocal == keyableParent.type = "localKey"
    IN  [ type |-> "generatedEnvkey",
          envkeyIdPart |-> payload.envkeyIdPart,
          keyableParentId |-> payload.keyableParentId,
          keyableParentType |-> payload.keyableParentType,
          environmentId |-> keyableParent.environmentId,
          envkeyShort |-> substr0(payload.envkeyIdPart, EnvkeyShortLen),
          envkeyIdPartHash |-> sha256(payload.envkeyIdPart),
          creatorId |-> auth.userId,
          creatorDeviceId |-> IF isToken THEN auth.deviceId ELSE Undefined,
          signedById |-> auth.userId,
          userId |-> IF isLocal THEN keyableParent.userId ELSE Undefined,
          deviceId |-> IF isLocal THEN keyableParent.deviceId ELSE Undefined,
          deletedAt |-> FALSE ]

\* the node generateKey builds
NewGeneratedEnvkey(graph, auth, payload) ==
    LET keyableParent == graph[payload.keyableParentId]
        isToken == auth.type = "tokenAuthContext"
        isLocal == keyableParent.type = "localKey"
    IN  [ type |-> "generatedEnvkey",
          envkeyIdPart |-> payload.envkeyIdPart,
          keyableParentId |-> payload.keyableParentId,
          keyableParentType |-> payload.keyableParentType,
          environmentId |-> keyableParent.environmentId,
          envkeyShort |-> substr0(payload.envkeyIdPart, EnvkeyShortLen),
          envkeyIdPartHash |-> sha256(payload.envkeyIdPart),
          creatorId |-> auth.userId,
          creatorDeviceId |-> IF isToken THEN auth.deviceId ELSE Undefined,
          signedById |-> IF isToken THEN auth.deviceId ELSE auth.userId,
          userId |-> IF isLocal THEN keyableParent.userId ELSE Undefined,
          deviceId |-> IF isLocal THEN keyableParent.deviceId ELSE Undefined,
          deletedAt |-> FALSE ]

\* generateKey that writes the new envkey over the parent's active one
generateKeyInPlace(graph, auth, payload, id) ==
    LET org == graph[OrgId]
        byParent == getActiveGeneratedEnvkeysByKeyableParentId(graph)
        target == IF payload.keyableParentId \in DOMAIN byParent
                  THEN byParent[payload.keyableParentId] ELSE id
        withKey == Assoc(graph, target, NewGeneratedEnvkey(graph, auth, payload))
    IN  [ withKey EXCEPT ![OrgId] =
            IF payload.keyableParentType = "server"
            THEN [org EXCEPT !.serverEnvkeyCount = @ + 1]
            ELSE org ]

\* generateKey: the graph with the new envkey under id and the org counter
generateKey(graph, auth, payload, id) ==
    LET org == graph[OrgId]
        withKey == Assoc(graph, id, NewGeneratedEnvkey(graph, auth, payload))
    IN  [ withKey EXCEPT ![OrgId] =
            IF payload.keyableParentType = "server"
            THEN [org EXCEPT !.serverEnvkeyCount = @ + 1]
            ELSE org ]

\* mutant: the parent's existing envkey is left active
GenerateKeyHandlerKeepsExisting(payload, graph, auth, id) ==
    [ graph |-> generateKey(graph, auth, payload, id),
      createdId |-> id,
      hardDeleteScopes |-> << >>,
      clearEnvkeySockets |-> << >> ]

\* GENERATE_KEY graphHandler that retires the prior envkey in the graph but
\* leaves its blob out of the transaction
GenerateKeyHandlerNoHardDelete(payload, graph, auth, id) ==
    LET generated == generateKey(graph, auth, payload, id)
        byParent == getActiveGeneratedEnvkeysByKeyableParentId(graph)
        hasExisting == payload.keyableParentId \in DOMAIN byParent
        existingId == byParent[payload.keyableParentId]
    IN  [ graph |-> IF hasExisting
                    THEN deleteGraphObjects(generated, {existingId})
                    ELSE generated,
          createdId |-> id,
          hardDeleteScopes |-> << >>,
          clearEnvkeySockets |->
              IF hasExisting THEN << existingId >> ELSE << >> ]

GenerateKeyHandler(payload, graph, auth, id) ==
    LET generated == generateKey(graph, auth, payload, id)
        byParent == getActiveGeneratedEnvkeysByKeyableParentId(graph)
        hasExisting == payload.keyableParentId \in DOMAIN byParent
        existingId == byParent[payload.keyableParentId]
    IN  [ graph |-> IF hasExisting
                    THEN deleteGraphObjects(generated, {existingId})
                    ELSE generated,
          createdId |-> id,
          hardDeleteScopes |->
              IF hasExisting
              THEN << EnvkeyPkey(graph[existingId].envkeyIdPart) >>
              ELSE << >>,
          clearEnvkeySockets |->
              IF hasExisting THEN << existingId >> ELSE << >> ]

RevokeKeyAuthorizer(payload, graph, auth, license) ==
    canRevokeKey(graph, auth.userId, payload.id)

\* REVOKE_KEY graphHandler without the targeted socket invalidation
RevokeKeyHandlerNoSocketClear(payload, graph, auth, id) ==
    [ graph |-> deleteGraphObjects(graph, {payload.id}),
      createdId |-> Undefined,
      hardDeleteScopes |-> << EnvkeyPkey(graph[payload.id].envkeyIdPart) >>,
      clearEnvkeySockets |-> << >> ]

\* REVOKE_KEY graphHandler that also blanks the key material of the node
RevokeKeyHandlerScrubsKey(payload, graph, auth, id) ==
    [ graph |-> [ deleteGraphObjects(graph, {payload.id}) EXCEPT
                    ![payload.id].envkeyIdPart = << >>,
                    ![payload.id].envkeyIdPartHash = << >> ],
      createdId |-> Undefined,
      hardDeleteScopes |-> << EnvkeyPkey(graph[payload.id].envkeyIdPart) >>,
      clearEnvkeySockets |-> << payload.id >> ]

RevokeKeyHandler(payload, graph, auth, id) ==
    [ graph |-> deleteGraphObjects(graph, {payload.id}),
      createdId |-> Undefined,
      hardDeleteScopes |-> << EnvkeyPkey(graph[payload.id].envkeyIdPart) >>,
      clearEnvkeySockets |-> << payload.id >> ]

(***************************************************************************)
(* The action pipeline: authorize against the current graph, propose the   *)
(* new graph, persist it in one transaction (or fail and roll back), then  *)
(* respond.  Quota-affecting graph actions of one org are serialized: an   *)
(* action enters the pipeline only when no other is in it.                 *)
(***************************************************************************)
Idle == [status |-> "idle"]

\* the action types whose handler draws a uuid() for a new node
CreatingTypes == {"CREATE_SERVER", "CREATE_LOCAL_KEY", "GENERATE_KEY"}

\* an authorizer that returns false ends the action with the one error the
\* pipeline has for it
Rejected(type, payload, auth) ==
    [ status |-> "Rejected", error |-> "Unauthorized",
      type |-> type, userId |-> auth.userId ]

Proposed(type, payload, auth, result) ==
    [ status |-> "proposed", type |-> type, payload |-> payload,
      auth |-> auth, result |-> result ]

\* the pipeline admits the next action
Admits == txn.status = "idle"

ApiUnchangedByDispatch ==
    UNCHANGED <<orgGraph, uuidLimit, maxServerEnvkeys, coreVars, serialVars, scopeVars, blocksVars, socketVars, timerVars>>

CreateServer(auth, payload) ==
    /\ Admits
    /\ IF CreateServerAuthorizer(payload, orgGraph, auth, maxServerEnvkeys)
       THEN /\ nextUuid <= uuidLimit
            /\ txn' = Proposed("CREATE_SERVER", payload, auth,
                        CreateServerHandler(payload, orgGraph, auth, nextUuid))
            /\ nextUuid' = nextUuid + 1
       ELSE /\ txn' = Rejected("CREATE_SERVER", payload, auth)
            /\ UNCHANGED nextUuid
    /\ ApiUnchangedByDispatch

DeleteServer(auth, payload) ==
    /\ Admits
    /\ IF DeleteServerAuthorizer(payload, orgGraph, auth, maxServerEnvkeys)
       THEN txn' = Proposed("DELETE_SERVER", payload, auth,
                      DeleteServerHandler(payload, orgGraph, auth, nextUuid))
       ELSE txn' = Rejected("DELETE_SERVER", payload, auth)
    /\ UNCHANGED nextUuid
    /\ ApiUnchangedByDispatch

CreateLocalKey(auth, payload) ==
    /\ Admits
    /\ IF CreateLocalKeyAuthorizer(payload, orgGraph, auth, maxServerEnvkeys)
       THEN /\ nextUuid <= uuidLimit
            /\ txn' = Proposed("CREATE_LOCAL_KEY", payload, auth,
                        CreateLocalKeyHandler(payload, orgGraph, auth, nextUuid))
            /\ nextUuid' = nextUuid + 1
       ELSE /\ txn' = Rejected("CREATE_LOCAL_KEY", payload, auth)
            /\ UNCHANGED nextUuid
    /\ ApiUnchangedByDispatch

DeleteLocalKey(auth, payload) ==
    /\ Admits
    /\ IF DeleteLocalKeyAuthorizer(payload, orgGraph, auth, maxServerEnvkeys)
       THEN txn' = Proposed("DELETE_LOCAL_KEY", payload, auth,
                      DeleteLocalKeyHandler(payload, orgGraph, auth, nextUuid))
       ELSE txn' = Rejected("DELETE_LOCAL_KEY", payload, auth)
    /\ UNCHANGED nextUuid
    /\ ApiUnchangedByDispatch

GenerateKey(auth, payload) ==
    /\ Admits
    /\ IF GenerateKeyAuthorizer(payload, orgGraph, auth, maxServerEnvkeys)
       THEN /\ nextUuid <= uuidLimit
            /\ txn' = Proposed("GENERATE_KEY", payload, auth,
                        GenerateKeyHandler(payload, orgGraph, auth, nextUuid))
            /\ nextUuid' = nextUuid + 1
       ELSE /\ txn' = Rejected("GENERATE_KEY", payload, auth)
            /\ UNCHANGED nextUuid
    /\ ApiUnchangedByDispatch

RevokeKey(auth, payload) ==
    /\ Admits
    /\ IF RevokeKeyAuthorizer(payload, orgGraph, auth, maxServerEnvkeys)
       THEN txn' = Proposed("REVOKE_KEY", payload, auth,
                      RevokeKeyHandler(payload, orgGraph, auth, nextUuid))
       ELSE txn' = Rejected("REVOKE_KEY", payload, auth)
    /\ UNCHANGED nextUuid
    /\ ApiUnchangedByDispatch

\* persist: the graph of the proposed result is written, and with it the
\* result's hardDeleteScopes and clearEnvkeySockets take effect
Commit ==
    /\ txn.status = "proposed"
    /\ orgGraph' = txn.result.graph
    /\ txn' = [ status |-> "Committed", type |-> txn.type,
                payload |-> txn.payload,
                createdId |-> txn.result.createdId,
                hardDeleteScopes |-> txn.result.hardDeleteScopes,
                clearEnvkeySockets |-> txn.result.clearEnvkeySockets ]
    /\ UNCHANGED <<nextUuid, uuidLimit, maxServerEnvkeys, coreVars, serialVars, scopeVars, blocksVars, socketVars, timerVars>>

\* the transaction fails and is rolled back whole: nothing of the proposed
\* result is kept
Fail ==
    /\ txn.status = "proposed"
    /\ txn' = [ status |-> "Failed", error |-> "TransactionFailed",
                type |-> txn.type ]
    \* the id drawn for a node that was never written is as good as unused
    /\ nextUuid' = IF txn.type \in CreatingTypes
                   THEN txn.result.createdId ELSE nextUuid
    /\ UNCHANGED <<orgGraph, uuidLimit, maxServerEnvkeys, coreVars, serialVars, scopeVars, blocksVars, socketVars, timerVars>>

\* the caller gets the outcome; the pipeline is free again
Respond ==
    /\ txn.status \in {"Committed", "Rejected", "Failed"}
    /\ txn' = Idle
    /\ UNCHANGED <<orgGraph, nextUuid, uuidLimit, maxServerEnvkeys, coreVars, serialVars, scopeVars, blocksVars, socketVars, timerVars>>

CreatePayloads == [environmentId : EnvironmentIds]
IdPayloads == [id : 1..uuidLimit]
GenerateKeyPayloads ==
    [ keyableParentId : 1..uuidLimit,
      keyableParentType : KeyableParentTypes,
      envkeyIdPart : EnvkeyIdParts ]

\* a new org: no keyable parent, no envkey
InitGraph ==
    /\ orgGraph = (OrgId :> [type |-> "org", serverEnvkeyCount |-> 0])
    /\ nextUuid = 1
    /\ txn = Idle

InitApi ==
    /\ InitGraph
    /\ uuidLimit = MaxUuid
    /\ maxServerEnvkeys \in {-1} \cup 0..MaxLicense

\* the org of the scenario: license.maxServerEnvkeys = 1
InitApiQuota1 ==
    /\ InitGraph
    /\ uuidLimit = MaxUuidQuota1
    /\ maxServerEnvkeys = 1

\* an org whose license sets no limit on server envkeys
InitApiUnlimited ==
    /\ InitGraph
    /\ uuidLimit = MaxUuid
    /\ maxServerEnvkeys = -1

\* one action of a caller among auths enters the pipeline, or the pipeline
\* moves on
ApiStep(auths) ==
    \/ \E auth \in auths, payload \in CreatePayloads : CreateServer(auth, payload)
    \/ \E auth \in auths, payload \in IdPayloads : DeleteServer(auth, payload)
    \/ \E auth \in auths, payload \in CreatePayloads : CreateLocalKey(auth, payload)
    \/ \E auth \in auths, payload \in IdPayloads : DeleteLocalKey(auth, payload)
    \/ \E auth \in auths, payload \in GenerateKeyPayloads : GenerateKey(auth, payload)
    \/ \E auth \in auths, payload \in IdPayloads : RevokeKey(auth, payload)
    \/ Commit
    \/ Fail
    \/ Respond

\* the callers that present a device token
TokenAuths == { auth \in Auths : auth.type = "tokenAuthContext" }

NextApi == ApiStep(TokenAuths)

(***************************************************************************)
(* Part II : the local core process (server.ts)                            *)
(***************************************************************************)
\* the last value of Date.now() in a run; the clock starts at 1
MaxClock == 3
\* the POST /action requests that may await their dispatch at one time
MaxPending == 1
\* the idle time after which the device locks, once the user has set it
LockoutMs == 1

(***************************************************************************)
(* Client state and its JSON patches.  A client state is a JSON object,    *)
(* here a function from the paths present to integers.                     *)
(***************************************************************************)
Paths == { "isConnectingBlocks", "connectBlocksErrors", "graph",
           "requiresPassphrase", "lockoutMs" }

EmptyObject == [ p \in {} |-> 0 ]

\* R.assocPath / draft[path] = value
AssocPath(obj, path, value) ==
    [ p \in DOMAIN obj \cup {path} |-> IF p = path THEN value ELSE obj[p] ]

\* R.dissocPath / delete draft[path]
DissocPath(obj, path) == [ p \in DOMAIN obj \ {path} |-> obj[p] ]

\* rfc6902 createPatch(input, output): a remove for every path only in
\* input, an add for every path only in output, a replace where both differ
createPatch(input, output) ==
    { [op |-> "remove", path |-> p, value |-> 0] :
          p \in DOMAIN input \ DOMAIN output }
    \cup { [op |-> "add", path |-> p, value |-> output[p]] :
          p \in DOMAIN output \ DOMAIN input }
    \cup { [op |-> "replace", path |-> p, value |-> output[p]] :
          p \in { q \in DOMAIN input \cap DOMAIN output : input[q] # output[q] } }

\* rfc6902 applyPatch(object, patch): remove and replace of a path that is
\* missing fail and change nothing; add sets the member whether present or not
applyPatch(object, patch) ==
    LET removed == { o.path : o \in { x \in patch : x.op = "remove" } }
        added == { o.path : o \in { x \in patch : x.op = "add" } }
        written == { o \in patch :
                        \/ o.op = "add"
                        \/ o.op = "replace" /\ o.path \in DOMAIN object }
    IN  [ p \in (DOMAIN object \ removed) \cup added |->
            IF \E o \in written : o.path = p
            THEN (CHOOSE o \in written : o.path = p).value
            ELSE object[p] ]

(***************************************************************************)
(* The store and the reducers of the actions the model dispatches.         *)
(***************************************************************************)
\* reduxStore = undefined
NoStore ==
    [ defined |-> FALSE, requiresPassphrase |-> FALSE, lockoutMs |-> 0,
      lastActiveAt |-> 0, account |-> EmptyObject ]

\* getDefaultStore()
DefaultStore ==
    [ defined |-> TRUE, requiresPassphrase |-> FALSE, lockoutMs |-> 0,
      lastActiveAt |-> 0, account |-> EmptyObject ]

\* what queuePersistState writes of a proc state
PersistedOf(store) ==
    [ requiresPassphrase |-> store.requiresPassphrase,
      lockoutMs |-> store.lockoutMs,
      account |-> store.account ]

\* getDefaultStore() followed by dispatch(MERGE_PERSISTED)
MergePersisted(p, now) ==
    [ defined |-> TRUE, requiresPassphrase |-> p.requiresPassphrase,
      lockoutMs |-> p.lockoutMs, lastActiveAt |-> now, account |-> p.account ]

\* getState(reduxStore, context): the serialized client state
getState(store) ==
    LET withPass == IF store.requiresPassphrase
                    THEN AssocPath(store.account, "requiresPassphrase", 1)
                    ELSE store.account
    IN  IF store.lockoutMs # 0
        THEN AssocPath(withPass, "lockoutMs", store.lockoutMs)
        ELSE withPass

\* Client.lockedState
LockedState == "lockedState"

\* getActionParams(action.type).type
ActionParamsType(type) ==
    IF type = "CONNECT_BLOCKS" THEN "asyncClientAction" ELSE "clientAction"

\* "skipLocalSocketUpdate" in actionParams && actionParams.skipLocalSocketUpdate
SkipLocalSocketUpdate(type) == FALSE

\* CONNECT_BLOCKS stateProducer: the pending flag is set, an earlier error of
\* the same path is dropped
ConnectBlocksStateProducer(account) ==
    DissocPath(AssocPath(account, "isConnectingBlocks", 1), "connectBlocksErrors")

\* CONNECT_BLOCKS failureStateProducer
ConnectBlocksFailureStateProducer(account) ==
    AssocPath(account, "connectBlocksErrors", 1)

\* CONNECT_BLOCKS endStateProducer
ConnectBlocksEndStateProducer(account) ==
    DissocPath(account, "isConnectingBlocks")

\* the graph proposer of the fanned-out action: the appBlock joins the graph
ConnectBlocksSuccess(account) == AssocPath(account, "graph", 1)

\* the synchronous part of dispatch(action): the reducers that run before
\* dispatch first suspends; every dispatched action stamps lastActiveAt
DispatchSync(store, type, now) ==
    LET stamped == [store EXCEPT !.lastActiveAt = now]
    IN  CASE type = "CONNECT_BLOCKS" ->
               [stamped EXCEPT !.account = ConnectBlocksStateProducer(@)]
          [] type = "SET_DEVICE_PASSPHRASE" ->
               [stamped EXCEPT !.requiresPassphrase = TRUE]
          [] type = "CLEAR_DEVICE_PASSPHRASE" ->
               [stamped EXCEPT !.requiresPassphrase = FALSE, !.lockoutMs = 0]
          [] type = "SET_DEVICE_LOCKOUT" ->
               [stamped EXCEPT !.lockoutMs =
                    IF store.requiresPassphrase THEN LockoutMs ELSE @]
          [] OTHER -> stamped

\* the producers that run when the dispatchPromise of an async action
\* settles: success or failure, then the end producer
SettleProducers(account, type, success) ==
    IF type = "CONNECT_BLOCKS"
    THEN ConnectBlocksEndStateProducer(
            IF success THEN ConnectBlocksSuccess(account)
            ELSE ConnectBlocksFailureStateProducer(account))
    ELSE account

\* the store after the dispatchPromise of an async action has settled
DispatchSettle(store, type, success) ==
    [store EXCEPT !.account = SettleProducers(@, type, success)]

(***************************************************************************)
(* server.ts: the lockout helpers, as functions of the process state       *)
(* m = [locked, store, persisted, timer, sock, org].                       *)
(***************************************************************************)
NoSocketMsg == [type |-> "none", diffs |-> {}]

\* localSocketUpdate(): { type: "update" }
FullUpdateMsg == [type |-> "update", diffs |-> {}]

\* localSocketUpdate("diffs", patch)
DiffsMsg(patch) == [type |-> "diffs", diffs |-> patch]

\* lockDevice() that leaves reduxStore as it is
lockDeviceKeepsStore(m) ==
    [m EXCEPT !.timer = 0, !.locked = TRUE,
              !.sock = FullUpdateMsg, !.org = FALSE]

\* lockDevice(): the store is dropped, the timer cleared, the key store
\* locked, the local sockets told to refetch, the org sockets closed
lockDevice(m) ==
    [m EXCEPT !.store = NoStore, !.timer = 0, !.locked = TRUE,
              !.sock = FullUpdateMsg, !.org = FALSE]

\* lockoutIfNeeded(now) leaving a due lockout to a pending timer
lockoutIfNeededLeavesItToTimer(m, now) ==
    IF m.locked \/ ~m.store.defined THEN m
    ELSE IF m.store.lockoutMs = 0 \/ m.store.lastActiveAt = 0 THEN m
    ELSE IF m.timer # 0 THEN m
    ELSE IF now - m.store.lastActiveAt > m.store.lockoutMs THEN lockDevice(m)
    ELSE m

\* lockoutIfNeeded(now)
lockoutIfNeeded(m, now) ==
    IF m.locked \/ ~m.store.defined THEN m
    ELSE IF m.store.lockoutMs = 0 \/ m.store.lastActiveAt = 0 THEN m
    ELSE IF now - m.store.lastActiveAt > m.store.lockoutMs THEN lockDevice(m)
    ELSE m

\* clearLockoutTimer()
clearLockoutTimer(m) == [m EXCEPT !.timer = 0]

\* resolveLockoutTimer() that leaves a pending timer as it is
resolveLockoutTimerKeepsPending(m, now) ==
    LET checked == lockoutIfNeeded(m, now)
    IN  IF m.locked \/ ~m.store.defined THEN clearLockoutTimer(m)
        ELSE IF checked.locked THEN checked
        ELSE IF checked.timer # 0 THEN checked
        ELSE IF checked.store.requiresPassphrase /\ checked.store.lockoutMs # 0
             THEN [checked EXCEPT !.timer = now + checked.store.lockoutMs]
             ELSE checked

\* resolveLockoutTimer() that checks for a due lockout and arms no timer
resolveLockoutTimerArmsNothing(m, now) ==
    LET cleared == clearLockoutTimer(m)
        checked == lockoutIfNeeded(cleared, now)
    IN  IF cleared.locked \/ ~cleared.store.defined THEN cleared
        ELSE checked

\* resolveLockoutTimer(): the timer is cleared, a due lockout is taken, and
\* the timer is armed again when a passphrase and a lockout are set
resolveLockoutTimer(m, now) ==
    LET cleared == clearLockoutTimer(m)
        checked == lockoutIfNeeded(cleared, now)
    IN  IF cleared.locked \/ ~cleared.store.defined THEN cleared
        ELSE IF checked.locked THEN checked
        ELSE IF checked.store.requiresPassphrase /\ checked.store.lockoutMs # 0
             THEN [checked EXCEPT !.timer = now + checked.store.lockoutMs]
             ELSE checked

\* unlockDevice(passphrase) with the right passphrase: unlock(), then
\* initReduxStore() merges the persisted state, then the org sockets connect
unlockDevice(m, now) ==
    [m EXCEPT !.locked = FALSE,
              !.store = MergePersisted(m.persisted, now),
              !.org = TRUE]

\* init(true): a new device key, a default store with INIT_DEVICE dispatched
\* and persisted, the lockout timer resolved, the org sockets connected
initForceReset(m, now) ==
    LET fresh == [DefaultStore EXCEPT !.lastActiveAt = now]
    IN  resolveLockoutTimer(
            [m EXCEPT !.locked = FALSE, !.store = fresh,
                      !.persisted = PersistedOf(fresh), !.org = TRUE], now)

\* the process state the handlers read
ProcNow ==
    [ locked |-> locked, store |-> reduxStore, persisted |-> persisted,
      timer |-> lockoutTimeout, sock |-> lastSocketMsg, org |-> orgSocketsOpen,
      running |-> running ]

\* the handlers' writes to the process state
ProcBecomes(m) ==
    /\ locked' = m.locked
    /\ reduxStore' = m.store
    /\ persisted' = m.persisted
    /\ lockoutTimeout' = m.timer
    /\ lastSocketMsg' = m.sock
    /\ orgSocketsOpen' = m.org
    /\ running' = m.running

(***************************************************************************)
(* server.ts: the routes                                                   *)
(***************************************************************************)
CoreActionTypes ==
    { "OPEN_URL", "UNLOCK_DEVICE", "LOAD_RECOVERY_KEY", "LOCK_DEVICE",
      "SET_DEVICE_PASSPHRASE", "CLEAR_DEVICE_PASSPHRASE", "SET_DEVICE_LOCKOUT",
      "CONNECT_BLOCKS" }

NoResponse ==
    [ code |-> 0, route |-> "none", type |-> "none", lockedOnArrival |-> FALSE,
      opened |-> FALSE, body |-> "none", shouldSendSocketUpdate |-> FALSE,
      tokenValid |-> TRUE,
      initial |-> EmptyObject, after |-> EmptyObject, state |-> EmptyObject,
      diffs |-> {} ]

\* res.status(code).json(body) of a request that did not get to dispatch
Response(code, route, type, wasLocked, body) ==
    [NoResponse EXCEPT !.code = code, !.route = route, !.type = type,
                       !.lockedOnArrival = wasLocked, !.body = body]

\* shouldSendSocketUpdate
ShouldSendSocketUpdate(type) ==
    /\ ~SkipLocalSocketUpdate(type)
    /\ ActionParamsType(type) \in {"asyncClientAction", "apiRequestAction"}

\* the response diffs always start from the pre-action state
DiffBaseAlwaysInitial(shouldSend, initialClientState, afterDispatchClientState) ==
    initialClientState

\* the state the response diffs start from
DiffBase(shouldSend, initialClientState, afterDispatchClientState) ==
    IF shouldSend THEN afterDispatchClientState ELSE initialClientState

\* res.status(200).json({...dispatchRes, diffs})
ActionResponse(type, wasLocked, initial, after, state) ==
    [NoResponse EXCEPT
        !.code = 200, !.route = "action", !.type = type,
        !.lockedOnArrival = wasLocked, !.body = "dispatchRes",
        !.shouldSendSocketUpdate = ShouldSendSocketUpdate(type),
        !.initial = initial, !.after = after, !.state = state,
        !.diffs = createPatch(
            DiffBase(ShouldSendSocketUpdate(type), initial, after), state)]

\* nothing the server sent is still on the wire: the model follows one
\* response and one socket message at a time
Quiet == lastResponse = NoResponse /\ lastSocketMsg = NoSocketMsg

\* a handler's outcome: the process state it leaves, and either the response
\* it sent or the request it left awaiting its dispatchPromise
Outcome(m, resp) ==
    [m |-> m, responded |-> TRUE, resp |-> resp, queued |-> <<>>]

Awaiting(m, req) ==
    [m |-> m, responded |-> FALSE, resp |-> NoResponse, queued |-> <<req>>]

\* POST /action whose socket diffs run from the state after the dispatch
\* call back to the pre-action state
DispatchActionSocketDiffsReversed(m, type, wasLocked, now) ==
    LET initialClientState == getState(m.store)
        dispatched == DispatchSync(m.store, type, now)
        afterDispatchClientState == getState(dispatched)
        sent == IF ShouldSendSocketUpdate(type)
                THEN [m EXCEPT !.store = dispatched,
                               !.sock = DiffsMsg(createPatch(afterDispatchClientState,
                                                 initialClientState))]
                ELSE [m EXCEPT !.store = dispatched]
    IN  IF ActionParamsType(type) = "clientAction"
        THEN Outcome(
                resolveLockoutTimer(
                    [sent EXCEPT !.persisted = PersistedOf(dispatched),
                                 !.org = TRUE], now),
                ActionResponse(type, wasLocked, initialClientState,
                               afterDispatchClientState, afterDispatchClientState))
        ELSE Awaiting(sent,
                [ type |-> type, wasLocked |-> wasLocked,
                  initial |-> initialClientState,
                  after |-> afterDispatchClientState,
                  orphaned |-> FALSE ])

\* POST /action from getState(reduxStore, context) on: the dispatch, the
\* local socket diff, and for an action that settles at once the persist,
\* the org sockets, the lockout timer and the response
DispatchAction(m, type, wasLocked, now) ==
    LET initialClientState == getState(m.store)
        dispatched == DispatchSync(m.store, type, now)
        afterDispatchClientState == getState(dispatched)
        sent == IF ShouldSendSocketUpdate(type)
                THEN [m EXCEPT !.store = dispatched,
                               !.sock = DiffsMsg(createPatch(initialClientState,
                                                 afterDispatchClientState))]
                ELSE [m EXCEPT !.store = dispatched]
    IN  IF ActionParamsType(type) = "clientAction"
        THEN Outcome(
                resolveLockoutTimer(
                    [sent EXCEPT !.persisted = PersistedOf(dispatched),
                                 !.org = TRUE], now),
                ActionResponse(type, wasLocked, initialClientState,
                               afterDispatchClientState, afterDispatchClientState))
        ELSE Awaiting(sent,
                [ type |-> type, wasLocked |-> wasLocked,
                  initial |-> initialClientState,
                  after |-> afterDispatchClientState,
                  orphaned |-> FALSE ])

\* POST /action from the test of reduxStore on, LOCK_DEVICE locking without
\* looking at requiresPassphrase
ContinueActionLocksWithoutPassphrase(m, type, wasLocked, now) ==
    IF ~m.store.defined
    THEN Outcome(m, Response(500, "action", type, wasLocked, "noStore"))
    ELSE IF type = "LOCK_DEVICE"
    THEN Outcome(lockDevice(m),
                 Response(200, "action", type, wasLocked, LockedState))
    ELSE DispatchAction(m, type, wasLocked, now)

\* POST /action from the test of reduxStore on
ContinueAction(m, type, wasLocked, now) ==
    IF ~m.store.defined
    THEN Outcome(m, Response(500, "action", type, wasLocked, "noStore"))
    ELSE IF type = "LOCK_DEVICE"
    THEN IF ~m.store.requiresPassphrase
         THEN Outcome(m, Response(422, "action", type, wasLocked, "noPassphrase"))
         ELSE Outcome(lockDevice(m),
                      Response(200, "action", type, wasLocked, LockedState))
    ELSE DispatchAction(m, type, wasLocked, now)

\* the POST /action handler going on after an unlockDevice that threw
PostActionHandlerIgnoresUnlockError(m, type, passphraseOk, now) ==
    IF type = "OPEN_URL"
    THEN Outcome(m, [Response(301, "action", type, m.locked, "success")
                        EXCEPT !.opened = TRUE])
    ELSE IF m.locked
    THEN IF type = "UNLOCK_DEVICE"
         THEN ContinueAction(unlockDevice(m, now), type, TRUE, now)
         ELSE IF type = "LOAD_RECOVERY_KEY"
         THEN ContinueAction(initForceReset(m, now), type, TRUE, now)
         ELSE Outcome(m, Response(403, "action", type, TRUE, "lockedError"))
    ELSE IF type = "UNLOCK_DEVICE"
    THEN Outcome(m, Response(422, "action", type, FALSE, "notLocked"))
    ELSE ContinueAction(m, type, FALSE, now)

\* the POST /action handler, after the middleware
PostActionHandler(m, type, passphraseOk, now) ==
    IF type = "OPEN_URL"
    THEN Outcome(m, [Response(301, "action", type, m.locked, "success")
                        EXCEPT !.opened = TRUE])
    ELSE IF m.locked
    THEN IF type = "UNLOCK_DEVICE"
         THEN IF passphraseOk
              THEN ContinueAction(unlockDevice(m, now), type, TRUE, now)
              ELSE Outcome(m, Response(403, "action", type, TRUE, "unlockError"))
         ELSE IF type = "LOAD_RECOVERY_KEY"
         THEN ContinueAction(initForceReset(m, now), type, TRUE, now)
         ELSE Outcome(m, Response(403, "action", type, TRUE, "lockedError"))
    ELSE IF type = "UNLOCK_DEVICE"
    THEN Outcome(m, Response(422, "action", type, FALSE, "notLocked"))
    ELSE ContinueAction(m, type, FALSE, now)

\* the handler got to localSocketUpdate("diffs", ...): the action was
\* dispatched and its update is sent before its dispatchPromise is awaited
ReachesSocketSend(out) ==
    /\ ~out.responded
    /\ out.queued # << >>
    /\ ShouldSendSocketUpdate(out.queued[1].type)

\* client.send() throws inside localSocketUpdate: nothing goes out, the
\* handler is left at that line and the error middleware answers 500; the
\* dispatch already started goes on with no handler awaiting it
SendThrew(out) ==
    [ m |-> [out.m EXCEPT !.sock = NoSocketMsg],
      responded |-> TRUE,
      resp |-> Response(500, "action", out.queued[1].type,
                        out.queued[1].wasLocked, "sendError"),
      queued |-> << [ out.queued[1] EXCEPT
                        !.orphaned = TRUE, !.initial = EmptyObject,
                        !.after = EmptyObject ] >> ]

\* POST /action: authMiddleware, lockoutMiddleware, then the handler up to
\* its response or to the await of a dispatch that does not settle at once
PostAction(type, tokenValid, passphraseOk, sendThrows) ==
    LET handled == PostActionHandler(lockoutIfNeeded(ProcNow, clock),
                                     type, passphraseOk, clock)
        out == IF ~tokenValid
               THEN Outcome(ProcNow,
                        [Response(401, "authMiddleware", type, locked, "Unauthorized")
                            EXCEPT !.tokenValid = FALSE])
               ELSE IF sendThrows /\ ReachesSocketSend(handled)
               THEN SendThrew(handled)
               ELSE handled
    IN  /\ running
        /\ Quiet
        /\ Len(pending) + Len(out.queued) <= MaxPending
        /\ ProcBecomes(out.m)
        /\ pending' = pending \o out.queued
        /\ lastResponse' = IF out.responded THEN out.resp ELSE lastResponse
        /\ UNCHANGED <<clock, apiVars, serialVars, scopeVars, blocksVars, socketVars, timerVars>>

\* the settling of the dispatchPromise that connects the org sockets before
\* it looks at the store
SettleActionReopensOrgSockets(m, req, success, now) ==
    IF req.orphaned
    THEN [ m |-> IF m.store.defined
                 THEN [m EXCEPT !.store = DispatchSettle(@, req.type, success)]
                 ELSE m,
           responded |-> FALSE, resp |-> NoResponse, queued |-> << >> ]
    ELSE IF ~m.store.defined
    THEN IF success
         THEN Outcome([m EXCEPT !.org = TRUE],
                Response(500, "action", req.type, req.wasLocked, "TypeError"))
         ELSE Outcome(resolveLockoutTimer(m, now),
                ActionResponse(req.type, req.wasLocked, req.initial, req.after,
                    SettleProducers(req.after, req.type, FALSE)))
    ELSE LET settled == DispatchSettle(m.store, req.type, success)
             kept == IF success
                     THEN [m EXCEPT !.store = settled,
                                    !.persisted = PersistedOf(settled),
                                    !.org = TRUE]
                     ELSE [m EXCEPT !.store = settled]
         IN  Outcome(resolveLockoutTimer(kept, now),
                ActionResponse(req.type, req.wasLocked, req.initial, req.after,
                    getState(settled)))

\* POST /action from the settling of the dispatchPromise on
SettleAction(m, req, success, now) ==
    IF req.orphaned
    THEN [ m |-> IF m.store.defined
                 THEN [m EXCEPT !.store = DispatchSettle(@, req.type, success)]
                 ELSE m,
           responded |-> FALSE, resp |-> NoResponse, queued |-> << >> ]
    ELSE IF ~m.store.defined
    THEN IF success
         THEN Outcome(m, Response(500, "action", req.type, req.wasLocked, "TypeError"))
         ELSE Outcome(resolveLockoutTimer(m, now),
                ActionResponse(req.type, req.wasLocked, req.initial, req.after,
                    SettleProducers(req.after, req.type, FALSE)))
    ELSE LET settled == DispatchSettle(m.store, req.type, success)
             kept == IF success
                     THEN [m EXCEPT !.store = settled,
                                    !.persisted = PersistedOf(settled),
                                    !.org = TRUE]
                     ELSE [m EXCEPT !.store = settled]
         IN  Outcome(resolveLockoutTimer(kept, now),
                ActionResponse(req.type, req.wasLocked, req.initial, req.after,
                    getState(settled)))

\* a pending dispatch settles and its request is answered
FinishAction(i, success) ==
    LET out == SettleAction(ProcNow, pending[i], success, clock)
    IN  /\ running
        /\ Quiet
        /\ ProcBecomes(out.m)
        /\ pending' = [ j \in 1..(Len(pending) - 1) |->
                          IF j < i THEN pending[j] ELSE pending[j + 1] ]
        /\ lastResponse' = IF out.responded THEN out.resp ELSE lastResponse
        /\ UNCHANGED <<clock, apiVars, serialVars, scopeVars, blocksVars, socketVars, timerVars>>

\* the GET /state handler testing reduxStore before isLocked()
GetStateHandlerStoreFirst(m, hasClientId, now) ==
    IF ~m.store.defined
    THEN Outcome(m, Response(500, "state", "none", m.locked, "noStore"))
    ELSE IF m.locked
    THEN Outcome(m, Response(200, "state", "none", TRUE, LockedState))
    ELSE IF ~hasClientId
    THEN Outcome(m, Response(400, "state", "none", FALSE, "missingClientId"))
    ELSE Outcome(
            resolveLockoutTimer(
                [m EXCEPT !.store =
                    DispatchSync(m.store, "FETCHED_CLIENT_STATE", now)], now),
            [Response(200, "state", "none", FALSE, "state")
                EXCEPT !.state = getState(m.store)])

\* the GET /state handler, after the middleware
GetStateHandler(m, hasClientId, now) ==
    IF m.locked
    THEN Outcome(m, Response(200, "state", "none", TRUE, LockedState))
    ELSE IF ~m.store.defined
    THEN Outcome(m, Response(500, "state", "none", FALSE, "noStore"))
    ELSE IF ~hasClientId
    THEN Outcome(m, Response(400, "state", "none", FALSE, "missingClientId"))
    ELSE Outcome(
            resolveLockoutTimer(
                [m EXCEPT !.store =
                    DispatchSync(m.store, "FETCHED_CLIENT_STATE", now)], now),
            [Response(200, "state", "none", FALSE, "state")
                EXCEPT !.state = getState(m.store)])

\* GET /state
GetState(tokenValid, hasClientId) ==
    LET out == IF ~tokenValid
               THEN Outcome(ProcNow,
                        [Response(401, "authMiddleware", "none", locked, "Unauthorized")
                            EXCEPT !.tokenValid = FALSE])
               ELSE GetStateHandler(lockoutIfNeeded(ProcNow, clock),
                                    hasClientId, clock)
    IN  /\ running
        /\ Quiet
        /\ ProcBecomes(out.m)
        /\ lastResponse' = out.resp
        /\ UNCHANGED <<clock, pending, apiVars, serialVars, scopeVars, blocksVars, socketVars, timerVars>>

\* setTimeout(lockDevice, lockoutMs) comes due
LockoutTimerFires ==
    /\ running
    /\ Quiet
    /\ lockoutTimeout # 0
    /\ clock >= lockoutTimeout
    /\ ProcBecomes(lockDevice(ProcNow))
    /\ UNCHANGED <<clock, pending, lastResponse, apiVars, serialVars, scopeVars, blocksVars, socketVars, timerVars>>

\* time passes
Tick ==
    /\ running
    /\ Quiet
    /\ clock < MaxClock
    /\ clock' = clock + 1
    /\ UNCHANGED <<locked, reduxStore, persisted, lockoutTimeout, running,
                   orgSocketsOpen, pending, lastSocketMsg, lastResponse, apiVars, serialVars, scopeVars, blocksVars, socketVars, timerVars>>

\* GET /alive, registered before any middleware
GetAlive(tokenValid) ==
    /\ running
    /\ Quiet
    /\ lastResponse' = [Response(200, "alive", "none", FALSE, "cliVersion")
                            EXCEPT !.tokenValid = tokenValid]
    /\ UNCHANGED <<locked, reduxStore, persisted, lockoutTimeout, running, clock,
                   orgSocketsOpen, pending, lastSocketMsg, apiVars, serialVars, scopeVars, blocksVars, socketVars, timerVars>>

\* gracefulShutdown(): the state of a defined store is persisted, then the
\* process exits
gracefulShutdown(m) ==
    [m EXCEPT !.running = FALSE,
              !.persisted = IF m.store.defined THEN PersistedOf(m.store) ELSE @]

\* GET /stop, registered before authMiddleware: the response is sent and the
\* process signals itself SIGTERM
GetStop(tokenValid) ==
    /\ running
    /\ Quiet
    /\ ProcBecomes(gracefulShutdown(ProcNow))
    /\ lastResponse' = [Response(200, "stop", "none", FALSE, "Stopping local server...")
                            EXCEPT !.tokenValid = tokenValid]
    /\ UNCHANGED <<clock, pending, apiVars, serialVars, scopeVars, blocksVars, socketVars, timerVars>>

\* the clients take the response and the socket message off the wire
ClientReceives ==
    /\ ~Quiet
    /\ lastResponse' = NoResponse
    /\ lastSocketMsg' = NoSocketMsg
    /\ UNCHANGED <<locked, reduxStore, persisted, lockoutTimeout, clock,
                   orgSocketsOpen, pending, running, apiVars, serialVars, scopeVars, blocksVars, socketVars, timerVars>>

\* the process after init() on a device without a device key
InitCore ==
    /\ clock = 1
    /\ locked = FALSE
    /\ reduxStore = [DefaultStore EXCEPT !.lastActiveAt = 1]
    /\ persisted = PersistedOf(DefaultStore)
    /\ lockoutTimeout = 0
    /\ orgSocketsOpen = TRUE
    /\ pending = <<>>
    /\ lastSocketMsg = NoSocketMsg
    /\ lastResponse = NoResponse
    /\ running = TRUE

\* the POST /action requests a client sends: every action type with a valid
\* user-agent token, one with an invalid token, UNLOCK_DEVICE also with a
\* wrong passphrase, and CONNECT_BLOCKS also with a socket send that throws
PostActionRequests ==
    { r \in [ type : CoreActionTypes, tokenValid : BOOLEAN,
              passphraseOk : BOOLEAN, sendThrows : BOOLEAN ] :
        /\ ~r.tokenValid => r.type = "CONNECT_BLOCKS" /\ r.passphraseOk
        /\ ~r.passphraseOk => r.type = "UNLOCK_DEVICE"
        /\ r.sendThrows => r.type = "CONNECT_BLOCKS" /\ r.tokenValid }

NextCore ==
    \/ \E r \in PostActionRequests : PostAction(r.type, r.tokenValid, r.passphraseOk, r.sendThrows)
    \/ \E i \in 1..Len(pending), success \in BOOLEAN : FinishAction(i, success)
    \/ \E tokenValid \in BOOLEAN, hasClientId \in BOOLEAN :
          GetState(tokenValid, hasClientId)
    \/ \E tokenValid \in BOOLEAN : GetAlive(tokenValid)
    \/ \E tokenValid \in BOOLEAN : GetStop(tokenValid)
    \/ LockoutTimerFires
    \/ Tick
    \/ ClientReceives

\* procHeartbeatLoop(): a heartbeat that finds the process was suspended for
\* more than 15 s checks the idle time
ProcHeartbeat ==
    /\ running
    /\ Quiet
    /\ ProcBecomes(lockoutIfNeeded(ProcNow, clock))
    /\ UNCHANGED <<clock, pending, lastResponse, apiVars, serialVars, scopeVars, blocksVars, socketVars, timerVars>>

\* a timer armed now comes due within the run's clock
BeforeHorizon == clock + LockoutMs <= MaxClock

\* the requests that get past authMiddleware and whose socket sends return
AuthenticatedRequests ==
    { r \in PostActionRequests : r.tokenValid /\ ~r.sendThrows }

\* an authenticated /action or /state request arrives
RequestArrives ==
    /\ BeforeHorizon
    /\ \/ \E r \in AuthenticatedRequests :
             PostAction(r.type, r.tokenValid, r.passphraseOk, r.sendThrows)
       \/ \E hasClientId \in BOOLEAN : GetState(TRUE, hasClientId)

\* a pending dispatch settles while its timer can still come due
DispatchSettles ==
    /\ BeforeHorizon
    /\ \E i \in 1..Len(pending), success \in BOOLEAN : FinishAction(i, success)

\* the core process with its timers: requests come while a timer they arm
\* can still come due within the run's clock
NextCoreLive ==
    \/ RequestArrives
    \/ DispatchSettles
    \/ GetStop(TRUE)
    \/ LockoutTimerFires
    \/ ProcHeartbeat
    \/ Tick
    \/ ClientReceives

\* lockDevice() up to its await of lock(): the store is cleared and dropped
\* and the timer cleared, the key store not yet locked
lockDeviceBegins(m) == [m EXCEPT !.store = NoStore, !.timer = 0]

\* lockDevice() from the return of lock() on: the key store is locked, the
\* local sockets are told to refetch, the org sockets closed
lockDeviceEnds(m) ==
    [m EXCEPT !.locked = TRUE, !.sock = FullUpdateMsg, !.org = FALSE]

\* the lockout timer comes due and its lockDevice() runs up to await lock()
LockoutTimerStartsLock ==
    /\ running
    /\ Quiet
    /\ lockoutTimeout # 0
    /\ clock >= lockoutTimeout
    /\ ProcBecomes(lockDeviceBegins(ProcNow))
    /\ UNCHANGED <<clock, pending, lastResponse, apiVars, serialVars, scopeVars, blocksVars, socketVars, timerVars>>

\* lock() returns to the lockDevice() the timer started: the only path on
\* which a running process has dropped the store of an unlocked device
LockReturns ==
    /\ running
    /\ Quiet
    /\ ~locked
    /\ ~reduxStore.defined
    /\ ProcBecomes(lockDeviceEnds(ProcNow))
    /\ UNCHANGED <<clock, pending, lastResponse, apiVars, serialVars, scopeVars, blocksVars, socketVars, timerVars>>

\* the core process with the timer's lockDevice() taken in its two parts, so
\* that requests and settling dispatches run between them
NextCoreRace ==
    \/ \E r \in AuthenticatedRequests :
          PostAction(r.type, r.tokenValid, r.passphraseOk, r.sendThrows)
    \/ \E i \in 1..Len(pending), success \in BOOLEAN : FinishAction(i, success)
    \/ \E hasClientId \in BOOLEAN : GetState(TRUE, hasClientId)
    \/ LockoutTimerStartsLock
    \/ LockReturns
    \/ Tick
    \/ ClientReceives

(***************************************************************************)
(* Part III : the order in which the client's dispatch runs the actions    *)
(* declared serialAction (handlers/blocks.ts)                              *)
(***************************************************************************)
\* the actions one run dispatches
MaxArrivals == 3

\* the block ids an action may touch
ResourceKeys == {"block1", "block2"}

SerialActionTypes == {"CONNECT_BLOCKS", "CONNECT_BLOCK"}

\* serialAction: true in the action's declaration
\* the declarations with the flag left off CONNECT_BLOCKS
serialActionWithoutConnectBlocks(type) ==
    type \in { "CREATE_BLOCK", "RENAME_BLOCK", "UPDATE_BLOCK_SETTINGS",
               "DELETE_BLOCK", "DISCONNECT_BLOCK", "REORDER_BLOCKS" }

serialAction(type) ==
    type \in { "CREATE_BLOCK", "RENAME_BLOCK", "UPDATE_BLOCK_SETTINGS",
               "DELETE_BLOCK", "DISCONNECT_BLOCK", "REORDER_BLOCKS",
               "CONNECT_BLOCKS" }

\* two actions contend: both are serial and touch a common resource key
Contend(a, b) ==
    /\ serialAction(a.type)
    /\ serialAction(b.type)
    /\ a.keys \cap b.keys # {}

\* the queued action at place i may start: nothing that arrived before it and
\* contends with it is still waiting or running
CanStart(i) ==
    /\ \A j \in 1..(i - 1) : ~Contend(serialQueue[j], serialQueue[i])
    /\ \A a \in serialRunning : ~Contend(a, serialQueue[i])

\* dispatch(action): the action joins the queue
SerialArrive(type, keys) ==
    /\ nextArrival <= MaxArrivals
    /\ serialQueue' = Append(serialQueue,
                          [id |-> nextArrival, type |-> type, keys |-> keys])
    /\ nextArrival' = nextArrival + 1
    /\ UNCHANGED <<serialRunning, serialDone, apiVars, coreVars, scopeVars, blocksVars, socketVars, timerVars>>

\* a queued action starts
SerialStart(i) ==
    /\ CanStart(i)
    /\ serialRunning' = serialRunning \cup {serialQueue[i]}
    /\ serialQueue' = [ j \in 1..(Len(serialQueue) - 1) |->
                          IF j < i THEN serialQueue[j] ELSE serialQueue[j + 1] ]
    /\ UNCHANGED <<serialDone, nextArrival, apiVars, coreVars, scopeVars, blocksVars, socketVars, timerVars>>

\* a running action commits or fails
SerialFinish(a, outcome) ==
    /\ a \in serialRunning
    /\ serialRunning' = serialRunning \ {a}
    /\ serialDone' = serialDone \cup {[id |-> a.id, outcome |-> outcome]}
    /\ UNCHANGED <<serialQueue, nextArrival, apiVars, coreVars, scopeVars, blocksVars, socketVars, timerVars>>

InitSerial ==
    /\ serialQueue = <<>>
    /\ serialRunning = {}
    /\ serialDone = {}
    /\ nextArrival = 1

NextSerial ==
    \/ \E type \in SerialActionTypes, keys \in (SUBSET ResourceKeys) \ {{}} :
          SerialArrive(type, keys)
    \/ \E i \in 1..Len(serialQueue) : SerialStart(i)
    \/ \E a \in serialRunning, outcome \in {"committed", "failed"} :
          SerialFinish(a, outcome)

(***************************************************************************)
(* Part IV : the access scopes of the block-connecting actions             *)
(* (handlers/blocks.ts encryptedKeysScopeFn).  A dimension of a scope is   *)
(* "all" or a finite set of ids: [all |-> TRUE, ids |-> {}] or             *)
(* [all |-> FALSE, ids |-> S].                                             *)
(***************************************************************************)
ScopeEnvParentIds == {"block2"}
ScopeUserIds == {"user1"}
ScopeKeyableParentIds == {"server1"}

\* "all"
All == [all |-> TRUE, ids |-> {}]

\* new Set(ids)
SetOf(ids) == [all |-> FALSE, ids |-> ids]

Dimension(universe) == {All} \cup { SetOf(ids) : ids \in SUBSET universe }

AccessScopes ==
    [ envParentIds : Dimension(ScopeEnvParentIds),
      userIds : Dimension(ScopeUserIds),
      keyableParentIds : Dimension(ScopeKeyableParentIds) ]

\* one dimension of a merge: "all" if either is "all", else the union
MergeDimension(x, y) ==
    IF x.all \/ y.all THEN All ELSE SetOf(x.ids \cup y.ids)

\* mergeAccessScopes(a, b)
mergeAccessScopes(a, b) ==
    [ envParentIds |-> MergeDimension(a.envParentIds, b.envParentIds),
      userIds |-> MergeDimension(a.userIds, b.userIds),
      keyableParentIds |-> MergeDimension(a.keyableParentIds, b.keyableParentIds) ]

\* mergeAccessScopes(a, b, c): the arguments are merged from the left
mergeAccessScopes3(a, b, c) == mergeAccessScopes(mergeAccessScopes(a, b), c)

\* CONNECT_BLOCK encryptedKeysScopeFn
ConnectBlockScope(appId, blockId) ==
    [ envParentIds |-> SetOf({appId, blockId}),
      userIds |-> All,
      keyableParentIds |-> All ]

\* CREATE_APP_BLOCK_GROUP encryptedKeysScopeFn; groupScope is
\* getOrgAccessScopeForGroupMembers(graph, blockGroupId)
CreateAppBlockGroupScope(groupScope, appId) ==
    mergeAccessScopes(groupScope,
        [ userIds |-> All, keyableParentIds |-> All,
          envParentIds |-> SetOf({appId}) ])

\* CREATE_APP_GROUP_BLOCK encryptedKeysScopeFn; groupScope is
\* getOrgAccessScopeForGroupMembers(graph, appGroupId)
CreateAppGroupBlockScope(groupScope, blockId) ==
    mergeAccessScopes(groupScope,
        [ userIds |-> All, keyableParentIds |-> All,
          envParentIds |-> SetOf({blockId}) ])

\* CREATE_APP_GROUP_BLOCK_GROUP encryptedKeysScopeFn without its literal
\* argument: the two group scopes alone
CreateAppGroupBlockGroupScopeGroupsOnly(appGroupScope, blockGroupScope) ==
    mergeAccessScopes(appGroupScope, blockGroupScope)

\* CREATE_APP_GROUP_BLOCK_GROUP encryptedKeysScopeFn; the group scopes are
\* getOrgAccessScopeForGroupMembers of appGroupId and of blockGroupId.  The
\* literal has no envParentIds; merged as the empty set
CreateAppGroupBlockGroupScope(appGroupScope, blockGroupScope) ==
    mergeAccessScopes3(appGroupScope, blockGroupScope,
        [ userIds |-> All, keyableParentIds |-> All,
          envParentIds |-> SetOf({}) ])

NoScopeResult == [by |-> "none", scope |-> ConnectBlockScope("app1", "block1")]

\* the scope of one dispatched action is computed
ComputeScope(by) ==
    /\ scopeResult' =
         [ by |-> by,
           scope |->
             CASE by = "CONNECT_BLOCK" -> ConnectBlockScope("app1", "block1")
               [] by = "CREATE_APP_BLOCK_GROUP" ->
                    CreateAppBlockGroupScope(scopeArgs[1], "app1")
               [] by = "CREATE_APP_GROUP_BLOCK" ->
                    CreateAppGroupBlockScope(scopeArgs[1], "block1")
               [] by = "CREATE_APP_GROUP_BLOCK_GROUP" ->
                    CreateAppGroupBlockGroupScope(scopeArgs[1], scopeArgs[2])
               [] by = "mergeAccessScopes" ->
                    mergeAccessScopes3(scopeArgs[1], scopeArgs[2], scopeArgs[3]) ]
    /\ UNCHANGED <<scopeArgs, apiVars, coreVars, serialVars, blocksVars, socketVars, timerVars>>

ScopeComputations ==
    { "CONNECT_BLOCK", "CREATE_APP_BLOCK_GROUP", "CREATE_APP_GROUP_BLOCK",
      "CREATE_APP_GROUP_BLOCK_GROUP", "mergeAccessScopes" }

\* no scope is being computed
InitScopeIdle ==
    /\ scopeArgs = <<NoScopeResult.scope, NoScopeResult.scope, NoScopeResult.scope>>
    /\ scopeResult = NoScopeResult

\* the group lookups may return any scopes
InitScope ==
    /\ scopeArgs \in AccessScopes \X AccessScopes \X AccessScopes
    /\ scopeResult = NoScopeResult

NextScope == \E by \in ScopeComputations : ComputeScope(by)

(***************************************************************************)
(* Part V : the block connections in the client's graph                    *)
(* (handlers/blocks.ts: the CONNECT_BLOCKS apiActionCreator, the graph     *)
(* proposers of the elementary actions, DISCONNECT_BLOCK).  A payload and  *)
(* a graph object are JSON objects: functions from the fields present to   *)
(* strings.                                                                *)
(***************************************************************************)
\* the connection nodes one graph holds at a time
MaxConnections == 2

\* the target fields, in the order the proposal id joins them
TargetFields == <<"appId", "appGroupId", "blockId", "blockGroupId">>

\* the fields pickDefined is asked for
PickedFields == {"appId", "appGroupId", "blockId", "blockGroupId", "orderIndex"}

\* the value a payload entry carries in a field it has; "other" is a field
\* the elementary actions do not know
EntryFieldValue ==
    [ appId |-> "app1", appGroupId |-> "appGroup1", blockId |-> "block1",
      blockGroupId |-> "blockGroup1", orderIndex |-> "0", other |-> "x" ]

\* the entries of a CONNECT_BLOCKS payload: any of the target fields may be
\* present, with an orderIndex or with a field of another kind
ConnectBlocksEntries ==
    { [ f \in targets \cup {extra} |-> EntryFieldValue[f] ] :
        targets \in SUBSET {"appId", "appGroupId", "blockId", "blockGroupId"},
        extra \in {"orderIndex", "other"} }

\* obj.field as a condition: the field is present (and not empty)
Truthy(obj, field) == field \in DOMAIN obj

\* obj.field, undefined when the field is absent
Get(obj, field) == IF field \in DOMAIN obj THEN obj[field] ELSE Undefined

\* pickDefined(fields, obj): the fields among those named that obj defines
pickDefined(fields, obj) == [ f \in fields \cap DOMAIN obj |-> obj[f] ]

\* { ...a, ...b }
Spread(a, b) ==
    [ f \in DOMAIN a \cup DOMAIN b |-> IF f \in DOMAIN b THEN b[f] ELSE a[f] ]

RECURSIVE Join(_)
\* Array.prototype.join("|")
Join(strings) ==
    IF strings = << >> THEN ""
    ELSE IF Len(strings) = 1 THEN strings[1]
    ELSE strings[1] \o "|" \o Join(Tail(strings))

\* an apiActionCreator chain without the (appGroupId, blockId) branch
ConnectBlocksActionTypeSkipsGroupBlock(payload) ==
    IF Truthy(payload, "appId") /\ Truthy(payload, "blockId")
    THEN "CONNECT_BLOCK"
    ELSE IF Truthy(payload, "appId") /\ Truthy(payload, "blockGroupId")
    THEN "CREATE_APP_BLOCK_GROUP"
    ELSE IF Truthy(payload, "appGroupId") /\ Truthy(payload, "blockGroupId")
    THEN "CREATE_APP_GROUP_BLOCK_GROUP"
    ELSE Undefined

\* the actionType the CONNECT_BLOCKS apiActionCreator chooses
ConnectBlocksActionType(payload) ==
    IF Truthy(payload, "appId") /\ Truthy(payload, "blockId")
    THEN "CONNECT_BLOCK"
    ELSE IF Truthy(payload, "appId") /\ Truthy(payload, "blockGroupId")
    THEN "CREATE_APP_BLOCK_GROUP"
    ELSE IF Truthy(payload, "appGroupId") /\ Truthy(payload, "blockId")
    THEN "CREATE_APP_GROUP_BLOCK"
    ELSE IF Truthy(payload, "appGroupId") /\ Truthy(payload, "blockGroupId")
    THEN "CREATE_APP_GROUP_BLOCK_GROUP"
    ELSE Undefined

\* CONNECT_BLOCKS apiActionCreator(payload)
apiActionCreator(payload) ==
    [ type |-> ConnectBlocksActionType(payload),
      payload |-> pickDefined(PickedFields, payload) ]

\* the objectType each elementary action gives getGraphProposer
ObjectTypeOf(actionType) ==
    CASE actionType = "CONNECT_BLOCK" -> "appBlock"
      [] actionType = "CREATE_APP_BLOCK_GROUP" -> "appBlockGroup"
      [] actionType = "CREATE_APP_GROUP_BLOCK" -> "appGroupBlock"
      [] actionType = "CREATE_APP_GROUP_BLOCK_GROUP" -> "appGroupBlockGroup"

\* [appId, appGroupId, blockId, blockGroupId].filter(Boolean).join("|")
ProposalId(payload) ==
    Join([ i \in 1..Len(SelectSeq(TargetFields, LAMBDA f : Truthy(payload, f))) |->
             payload[SelectSeq(TargetFields, LAMBDA f : Truthy(payload, f))[i]] ])

\* getGraphProposer(objectType)(action)(graphDraft)
getGraphProposer(objectType, action, graphDraft) ==
    LET proposalId == ProposalId(action.payload)
        object == Spread(
            [ type |-> objectType, id |-> proposalId,
              createdAt |-> "now", updatedAt |-> "now" ],
            pickDefined(PickedFields, action.payload))
    IN  Assoc(graphDraft, proposalId, object)

\* deleteProposer(action)(graphDraft): the object named by the payload leaves
\* the graph
deleteProposer(id, graphDraft) ==
    [ i \in DOMAIN graphDraft \ {id} |-> graphDraft[i] ]

\* DISCONNECT_BLOCK encryptedKeysScopeFn that names the block alone
DisconnectBlockScopeBlockOnly(graph, id) ==
    [ envParentIds |-> SetOf({Get(graph[id], "blockId")}),
      userIds |-> All,
      keyableParentIds |-> All ]

\* DISCONNECT_BLOCK encryptedKeysScopeFn
DisconnectBlockScope(graph, id) ==
    [ envParentIds |-> SetOf({Get(graph[id], "appId"), Get(graph[id], "blockId")}),
      userIds |-> All,
      keyableParentIds |-> All ]

NoAction == [type |-> Undefined, payload |-> EmptyObject]

NoBlocksOut ==
    [ by |-> "none", entry |-> EmptyObject, action |-> NoAction,
      id |-> Undefined, node |-> EmptyObject,
      scope |-> ConnectBlockScope("app1", "block1"), error |-> "none" ]

\* one entry of a dispatched CONNECT_BLOCKS: the elementary action is made
\* and, when it has a type, its proposer runs on the graph
ConnectBlocksEntry(payload) ==
    LET action == apiActionCreator(payload)
        proposed == IF action.type = Undefined THEN userGraph
                    ELSE getGraphProposer(ObjectTypeOf(action.type), action,
                                          userGraph)
    IN  /\ Cardinality(DOMAIN proposed) <= MaxConnections
        /\ userGraph' = proposed
        /\ blocksOut' =
             [NoBlocksOut EXCEPT
                !.by = "CONNECT_BLOCKS", !.entry = payload, !.action = action,
                !.id = IF action.type = Undefined THEN Undefined
                       ELSE ProposalId(action.payload),
                !.node = IF action.type = Undefined THEN EmptyObject
                         ELSE proposed[ProposalId(action.payload)]]
        /\ UNCHANGED <<apiVars, coreVars, serialVars, scopeVars, socketVars, timerVars>>

\* a dispatched DISCONNECT_BLOCK: the scope is computed from the graph as it
\* is, then the proposer removes the object; the scope function throws on
\* an id the graph does not hold
DisconnectBlock(id) ==
    /\ IF id \in DOMAIN userGraph
       THEN /\ blocksOut' =
                 [NoBlocksOut EXCEPT
                    !.by = "DISCONNECT_BLOCK", !.id = id,
                    !.node = userGraph[id],
                    !.scope = DisconnectBlockScope(userGraph, id)]
            /\ userGraph' = deleteProposer(id, userGraph)
       ELSE /\ blocksOut' =
                 [NoBlocksOut EXCEPT
                    !.by = "DISCONNECT_BLOCK", !.id = id, !.error = "TypeError"]
            /\ userGraph' = userGraph
    /\ UNCHANGED <<apiVars, coreVars, serialVars, scopeVars, socketVars, timerVars>>

\* a client graph without connections
InitBlocks ==
    /\ userGraph = EmptyObject
    /\ blocksOut = NoBlocksOut

NextBlocks ==
    \/ \E payload \in ConnectBlocksEntries : ConnectBlocksEntry(payload)
    \/ \E id \in DOMAIN userGraph \cup {"missing"} : DisconnectBlock(id)

(***************************************************************************)
(* Part VI : the local socket server (server.ts localSocketUpdate).  The   *)
(* notifications are numbered in the order they are sent.                  *)
(***************************************************************************)
\* the notifications one run sends
MaxSocketMsgs == 2

\* the local clients that may subscribe
SocketClients == {"ui", "cli"}

\* the members of a sequence
Range(seq) == { seq[i] : i \in 1..Len(seq) }

\* the clients of wss.clients whose readyState is WebSocket.OPEN
OpenClients(clients, state) == { c \in Range(clients) : state[c] = "OPEN" }

\* the position in wss.clients at which forEach stops: that of the first
\* OPEN client whose send throws, or past the end
StopsAt(clients, state, throwing) ==
    LET stops == { i \in 1..Len(clients) :
                     state[clients[i]] = "OPEN" /\ clients[i] \in throwing }
    IN  IF stops = {} THEN Len(clients) + 1
        ELSE CHOOSE i \in stops : \A j \in stops : i <= j

\* localSocketUpdate that sends to every client of wss.clients
SendsToEveryClient(clients, state, throwing) ==
    { clients[i] : i \in 1..(StopsAt(clients, state, throwing) - 1) }

\* the clients client.send() is called on and returns for
SendsTo(clients, state, throwing) ==
    { c \in { clients[i] : i \in 1..(StopsAt(clients, state, throwing) - 1) } :
        state[c] = "OPEN" }

\* a client connects: the server adds it to wss.clients, OPEN
SocketConnect(c) ==
    /\ c \notin Range(wssClients)
    /\ wssClients' = Append(wssClients, c)
    /\ readyState' = [readyState EXCEPT ![c] = "OPEN"]
    /\ UNCHANGED <<inbox, socketLog, apiVars, coreVars, serialVars, scopeVars, blocksVars, timerVars>>

\* the connection of a client starts to close
SocketClosing(c) ==
    /\ c \in Range(wssClients)
    /\ readyState[c] = "OPEN"
    /\ readyState' = [readyState EXCEPT ![c] = "CLOSING"]
    /\ UNCHANGED <<wssClients, inbox, socketLog, apiVars, coreVars, serialVars, scopeVars, blocksVars, timerVars>>

\* the connection is closed: the server takes the client off wss.clients
SocketClosed(c) ==
    /\ c \in Range(wssClients)
    /\ wssClients' = SelectSeq(wssClients, LAMBDA x : x # c)
    /\ readyState' = [readyState EXCEPT ![c] = "CLOSED"]
    /\ UNCHANGED <<inbox, socketLog, apiVars, coreVars, serialVars, scopeVars, blocksVars, timerVars>>

\* localSocketUpdate(updateType, diffs), with the clients whose send throws
localSocketUpdate(updateType, throwing) ==
    LET k == Len(socketLog) + 1
        sent == SendsTo(wssClients, readyState, throwing)
    IN  /\ k <= MaxSocketMsgs
        /\ inbox' = [ c \in SocketClients |->
                        IF c \in sent THEN Append(inbox[c], k) ELSE inbox[c] ]
        /\ socketLog' = Append(socketLog,
              [ type |-> IF updateType = "full_update" THEN "update" ELSE "diffs",
                open |-> OpenClients(wssClients, readyState),
                threw |-> StopsAt(wssClients, readyState, throwing)
                             <= Len(wssClients) ])
        /\ UNCHANGED <<wssClients, readyState, apiVars, coreVars, serialVars, scopeVars, blocksVars, timerVars>>

\* the socket server has started and no client is connected
InitSocket ==
    /\ wssClients = << >>
    /\ readyState = [ c \in SocketClients |-> "CLOSED" ]
    /\ inbox = [ c \in SocketClients |-> << >> ]
    /\ socketLog = << >>

NextSocket ==
    \/ \E c \in SocketClients : SocketConnect(c)
    \/ \E c \in SocketClients : SocketClosing(c)
    \/ \E c \in SocketClients : SocketClosed(c)
    \/ \E updateType \in {"full_update", "diffs"}, throwing \in SUBSET SocketClients :
          localSocketUpdate(updateType, throwing)

(***************************************************************************)
(* Part VII : the lockout timer in the event loop (server.ts               *)
(* clearLockoutTimer, resolveLockoutTimer, lockDevice).  setTimeout puts a *)
(* callback in the event loop and returns its handle; the variable         *)
(* lockoutTimeout holds one handle.  resolveLockoutTimer() suspends at     *)
(* `await lockoutIfNeeded(now)`: the handlers of other requests run        *)
(* between its clearLockoutTimer() and its setTimeout.  The device has a   *)
(* passphrase and a lockout of LockoutMs set.                              *)
(***************************************************************************)
\* the setTimeout calls of one run
MaxTimers == 5
\* the calls of resolveLockoutTimer() that may be suspended at one time
MaxOverlap == 2

\* clearLockoutTimer(): clearTimeout of the handle held, if any
ClearedTimers(timers, handle) == { t \in timers : t.id # handle }

\* now - state.lastActiveAt > state.lockoutMs
IdleTooLong == timerNow - activeAt > LockoutMs

\* a request passes lockoutMiddleware and its handler runs up to the await
\* inside resolveLockoutTimer(): an idle device is locked by the middleware
\* and a locked one gets the locked answer; else the handler's dispatch
\* stamps lastActiveAt and resolveLockoutTimer() clears the timer it holds
RequestRuns ==
    /\ resolving < MaxOverlap
    /\ nextTimerId + resolving <= MaxTimers
    /\ IF keyLocked
       THEN UNCHANGED <<eventLoopTimers, lockoutHandle, resolving, keyLocked, activeAt>>
       ELSE IF IdleTooLong
       THEN /\ eventLoopTimers' = ClearedTimers(eventLoopTimers, lockoutHandle)
            /\ lockoutHandle' = 0
            /\ keyLocked' = TRUE
            /\ UNCHANGED <<resolving, activeAt>>
       ELSE /\ activeAt' = timerNow
            /\ eventLoopTimers' = ClearedTimers(eventLoopTimers, lockoutHandle)
            /\ lockoutHandle' = 0
            /\ resolving' = resolving + 1
            /\ UNCHANGED keyLocked
    /\ UNCHANGED <<timerNow, nextTimerId, apiVars, coreVars, serialVars, scopeVars, blocksVars, socketVars>>

\* UNLOCK_DEVICE with the right passphrase on a locked device: unlockDevice,
\* the dispatch, then resolveLockoutTimer() up to its await
UnlockRuns ==
    /\ keyLocked
    /\ resolving < MaxOverlap
    /\ nextTimerId + resolving <= MaxTimers
    /\ keyLocked' = FALSE
    /\ activeAt' = timerNow
    /\ eventLoopTimers' = ClearedTimers(eventLoopTimers, lockoutHandle)
    /\ lockoutHandle' = 0
    /\ resolving' = resolving + 1
    /\ UNCHANGED <<timerNow, nextTimerId, apiVars, coreVars, serialVars, scopeVars, blocksVars, socketVars>>

\* a suspended resolveLockoutTimer() resumes: on an unlocked device
\* lockoutTimeout = setTimeout(lockDevice, state.lockoutMs)
ResolveResumes ==
    /\ resolving > 0
    /\ resolving' = resolving - 1
    /\ IF keyLocked
       THEN UNCHANGED <<eventLoopTimers, lockoutHandle, nextTimerId>>
       ELSE /\ eventLoopTimers' = eventLoopTimers \cup
                    { [id |-> nextTimerId, due |-> timerNow + LockoutMs] }
            /\ lockoutHandle' = nextTimerId
            /\ nextTimerId' = nextTimerId + 1
    /\ UNCHANGED <<timerNow, keyLocked, activeAt, apiVars, coreVars, serialVars, scopeVars, blocksVars, socketVars>>

\* a callback of the event loop comes due and runs lockDevice(); no timer
\* callback runs between the two parts of a resolveLockoutTimer()
TimerCallbackRuns(t) ==
    /\ t \in eventLoopTimers
    /\ timerNow >= t.due
    /\ resolving = 0
    /\ eventLoopTimers' = ClearedTimers(eventLoopTimers \ {t}, lockoutHandle)
    /\ lockoutHandle' = 0
    /\ keyLocked' = TRUE
    /\ UNCHANGED <<timerNow, resolving, activeAt, nextTimerId, apiVars, coreVars, serialVars, scopeVars, blocksVars, socketVars>>

\* time passes, never between the two parts of a resolveLockoutTimer()
TimerTick ==
    /\ resolving = 0
    /\ timerNow < MaxClock
    /\ timerNow' = timerNow + 1
    /\ UNCHANGED <<eventLoopTimers, lockoutHandle, resolving, keyLocked, activeAt, nextTimerId, apiVars, coreVars, serialVars, scopeVars, blocksVars, socketVars>>

\* the process has started on an unlocked device: init() has armed the timer
InitTimer ==
    /\ timerNow = 1
    /\ activeAt = 1
    /\ keyLocked = FALSE
    /\ eventLoopTimers = { [id |-> 1, due |-> 1 + LockoutMs] }
    /\ lockoutHandle = 1
    /\ resolving = 0
    /\ nextTimerId = 2

NextTimer ==
    \/ RequestRuns
    \/ UnlockRuns
    \/ ResolveResumes
    \/ \E t \in eventLoopTimers : TimerCallbackRuns(t)
    \/ TimerTick

vars == <<orgGraph, nextUuid, uuidLimit, maxServerEnvkeys, txn,
          scopeArgs, scopeResult, userGraph, blocksOut,
          wssClients, readyState, inbox, socketLog,
          serialQueue, serialRunning, serialDone, nextArrival,
          locked, reduxStore, persisted, lockoutTimeout, clock,
          orgSocketsOpen, pending, lastSocketMsg, lastResponse, running,
          timerNow, eventLoopTimers, lockoutHandle, resolving, keyLocked,
          activeAt, nextTimerId>>

\* the API server, with the core process of the client at rest
InitApiOnly == InitApi /\ InitCore /\ InitSerial /\ InitScopeIdle /\ InitBlocks /\ InitSocket /\ InitTimer

InitApiQuota1Only == InitApiQuota1 /\ InitCore /\ InitSerial /\ InitScopeIdle /\ InitBlocks /\ InitSocket /\ InitTimer

\* the core process, with the API server at rest
InitCoreOnly ==
    /\ InitGraph /\ uuidLimit = MaxUuid /\ maxServerEnvkeys = -1
    /\ InitCore /\ InitSerial /\ InitScopeIdle /\ InitBlocks /\ InitSocket /\ InitTimer

\* the dispatch of serial actions, with all else at rest
InitSerialOnly ==
    /\ InitGraph /\ uuidLimit = MaxUuid /\ maxServerEnvkeys = -1
    /\ InitCore /\ InitSerial /\ InitScopeIdle /\ InitBlocks /\ InitSocket /\ InitTimer

SpecApi == InitApiOnly /\ [][NextApi]_vars

\* the API with every kind of caller, CLI keys included
NextApiCli == ApiStep(Auths)

InitApiCliOnly == InitApiUnlimited /\ InitCore /\ InitSerial /\ InitScopeIdle /\ InitBlocks /\ InitSocket /\ InitTimer

SpecApiCli == InitApiCliOnly /\ [][NextApiCli]_vars

SpecApiQuota1 == InitApiQuota1Only /\ [][NextApi]_vars

SpecCore == InitCoreOnly /\ [][NextCore]_vars

\* time passes, a timer that is due fires, and what the server sent is taken
\* off the wire
FairCore ==
    /\ WF_vars(Tick)
    /\ WF_vars(LockoutTimerFires)
    /\ WF_vars(ClientReceives)

SpecCoreLive == InitCoreOnly /\ [][NextCoreLive]_vars /\ FairCore

SpecCoreRace == InitCoreOnly /\ [][NextCoreRace]_vars

\* the lockout timer, with all else at rest
InitTimerOnly ==
    /\ InitGraph /\ uuidLimit = MaxUuid /\ maxServerEnvkeys = -1
    /\ InitCore /\ InitSerial /\ InitScopeIdle /\ InitBlocks /\ InitSocket /\ InitTimer

SpecTimer == InitTimerOnly /\ [][NextTimer]_vars

SpecSerial == InitSerialOnly /\ [][NextSerial]_vars

\* the scope computations, with all else at rest
InitScopeOnly ==
    /\ InitGraph /\ uuidLimit = MaxUuid /\ maxServerEnvkeys = -1
    /\ InitCore /\ InitSerial /\ InitScope /\ InitBlocks /\ InitSocket /\ InitTimer

SpecScope == InitScopeOnly /\ [][NextScope]_vars

\* the block connections, with all else at rest
InitBlocksOnly ==
    /\ InitGraph /\ uuidLimit = MaxUuid /\ maxServerEnvkeys = -1
    /\ InitCore /\ InitSerial /\ InitScopeIdle /\ InitBlocks /\ InitSocket /\ InitTimer

SpecBlocks == InitBlocksOnly /\ [][NextBlocks]_vars

\* the local socket server, with all else at rest
InitSocketOnly ==
    /\ InitGraph /\ uuidLimit = MaxUuid /\ maxServerEnvkeys = -1
    /\ InitCore /\ InitSerial /\ InitScopeIdle /\ InitBlocks /\ InitSocket /\ InitTimer

SpecSocket == InitSocketOnly /\ [][NextSocket]_vars

(***************************************************************************)
(* Properties of the keyable-parent handlers.                              *)
(***************************************************************************)
IsProposed(types) == txn.status = "proposed" /\ txn.type \in types

IsCommitted(types) == txn.status = "Committed" /\ txn.type \in types

\* the active envkeys of keyable parent p in graph
ActiveEnvkeysOf(graph, p) ==
    { id \in getActiveGeneratedEnvkeys(graph) : graph[id].keyableParentId = p }

\* the active envkeys whose keyable parent is a server node
ActiveServerEnvkeys(graph) ==
    { id \in getActiveGeneratedEnvkeys(graph) :
        graph[graph[id].keyableParentId].type = "server" }

AtMostOneActivePerParent(graph) ==
    \A p \in DOMAIN graph : Cardinality(ActiveEnvkeysOf(graph, p)) <= 1

\* C1: in every reachable graph, committed or proposed by a handler, each
\* keyable parent has at most one generated envkey without a delete marker.
C1_SingleActiveCredential ==
    /\ AtMostOneActivePerParent(orgGraph)
    /\ txn.status = "proposed" => AtMostOneActivePerParent(txn.result.graph)

\* a regenerate has been committed: the parent's earlier envkey was retired
C1_Witness ==
    /\ IsCommitted({"GENERATE_KEY"})
    /\ txn.clearEnvkeySockets # << >>
    /\ Cardinality(ActiveEnvkeysOf(orgGraph, txn.payload.keyableParentId)) = 1

\* C2: with a finite license.maxServerEnvkeys = N the number of active
\* envkeys bound to server parents never exceeds N.
C2_QuotaNeverExceeded ==
    maxServerEnvkeys # -1 =>
        Cardinality(ActiveServerEnvkeys(orgGraph)) <= maxServerEnvkeys

\* C3: org.serverEnvkeyCount equals the number of active generated envkeys
\* whose keyable parent is a server.
C3_CounterMatchesActiveServerEnvkeys ==
    orgGraph[OrgId].serverEnvkeyCount =
        Cardinality(ActiveServerEnvkeys(orgGraph))

\* C6: a DeleteServer or DeleteLocalKey on a parent with an active envkey E
\* returns, in one handler result, a graph where the parent and E carry the
\* delete marker, the hard-delete scope "envkey|" + E.envkeyIdPart and the
\* socket invalidation of E.id; committed, the graph holds both deletions.
C6_CascadingDelete ==
    /\ IsProposed({"DELETE_SERVER", "DELETE_LOCAL_KEY"}) =>
          \A e \in ActiveEnvkeysOf(orgGraph, txn.payload.id) :
              /\ txn.result.graph[txn.payload.id].deletedAt
              /\ txn.result.graph[e].deletedAt
              /\ txn.result.hardDeleteScopes =
                     << EnvkeyPkey(orgGraph[e].envkeyIdPart) >>
              /\ txn.result.clearEnvkeySockets = << e >>
    /\ IsCommitted({"DELETE_SERVER", "DELETE_LOCAL_KEY"}) =>
          /\ orgGraph[txn.payload.id].deletedAt
          /\ ActiveEnvkeysOf(orgGraph, txn.payload.id) = {}
          /\ \A i \in 1..Len(txn.clearEnvkeySockets) :
                LET e == txn.clearEnvkeySockets[i]
                IN  /\ orgGraph[e].deletedAt
                    /\ orgGraph[e].keyableParentId = txn.payload.id
                    /\ txn.hardDeleteScopes =
                           << EnvkeyPkey(orgGraph[e].envkeyIdPart) >>

\* a keyable parent that had an active envkey has been deleted
C6_Witness ==
    /\ IsCommitted({"DELETE_SERVER", "DELETE_LOCAL_KEY"})
    /\ txn.clearEnvkeySockets # << >>

\* C7: a GenerateKey on a parent whose active envkey is K1 yields an active
\* K2 with another id, another envkeyIdPart and another envkeyIdPartHash, K1
\* is retired, and the one socket invalidation emitted names K1.
C7_RegenerateIssuesNewIdentity ==
    IsProposed({"GENERATE_KEY"}) =>
        \A k1 \in ActiveEnvkeysOf(orgGraph, txn.payload.keyableParentId) :
            LET k2 == txn.result.createdId
                new == txn.result.graph[k2]
                old == orgGraph[k1]
            IN  /\ k2 # k1
                /\ ~new.deletedAt
                /\ new.envkeyIdPart # old.envkeyIdPart
                /\ new.envkeyIdPartHash # old.envkeyIdPartHash
                /\ txn.result.graph[k1].deletedAt
                /\ txn.result.clearEnvkeySockets = << k1 >>

\* C8: whenever the number of active server envkeys is below the license
\* limit (as after the revoke of the scenario), a GenerateKey for a server by
\* an actor who may generate keys is permitted.
C8_PermittedBelowQuota ==
    ( /\ IsCommitted({"REVOKE_KEY"})
      /\ Cardinality(ActiveServerEnvkeys(orgGraph)) < maxServerEnvkeys ) =>
        \A auth \in Auths, payload \in GenerateKeyPayloads :
            ( /\ payload.keyableParentType = "server"
              /\ IsActiveNode(orgGraph, payload.keyableParentId, {"server"})
              /\ canGenerateKey(orgGraph, auth.userId, payload.keyableParentId) )
            => GenerateKeyAuthorizer(payload, orgGraph, auth, maxServerEnvkeys)

C10_QuotaRejectionIsDistinct ==
    ( /\ txn.status = "Rejected"
      /\ txn.type = "CREATE_SERVER"
      /\ HasManageCapability(txn.userId)
      /\ maxServerEnvkeys # -1
      /\ NumActive(orgGraph) >= maxServerEnvkeys )
    => txn.error # "Unauthorized"

(***************************************************************************)
(* Properties of the core process's POST /action.                          *)
(***************************************************************************)
\* the last response answers a POST /action that reached its handler with
\* the device locked
AnsweredWhileLocked ==
    /\ lastResponse.route = "action"
    /\ lastResponse.lockedOnArrival

\* the last response is that of a dispatched action
AnsweredDispatch ==
    /\ lastResponse.route = "action"
    /\ lastResponse.body = "dispatchRes"

\* C4: a POST /action that finds the device locked and carries any action
\* type other than UNLOCK_DEVICE and LOAD_RECOVERY_KEY, OPEN_URL included, is
\* answered with the locked error and has no side effect.
C4_LockedRejectsEveryOtherAction ==
    ( /\ AnsweredWhileLocked
      /\ lastResponse.type \notin {"UNLOCK_DEVICE", "LOAD_RECOVERY_KEY"} )
    => /\ lastResponse.code = 403
       /\ lastResponse.body = "lockedError"
       /\ ~lastResponse.opened

\* C5: for every dispatched action, synchronous or not, the response diffs
\* applied to the client state serialized before the dispatch give
\* dispatchRes.state.
C5_DiffsRoundTripFromInitial ==
    AnsweredDispatch
    => applyPatch(lastResponse.initial, lastResponse.diffs) = lastResponse.state

\* C5 (amended): the response diffs applied to the state they start from
\* give dispatchRes.state; they start from the state serialized right after
\* the dispatch call for an asyncClientAction or apiRequestAction without
\* skipLocalSocketUpdate, and from the pre-action state for any other action.
C5_DiffsRoundTripFromBase ==
    AnsweredDispatch
    => LET type == lastResponse.type
           base == IF /\ ActionParamsType(type) \in
                            {"asyncClientAction", "apiRequestAction"}
                      /\ ~SkipLocalSocketUpdate(type)
                   THEN lastResponse.after
                   ELSE lastResponse.initial
       IN  applyPatch(base, lastResponse.diffs) = lastResponse.state

\* an async action was answered whose dispatch call and whose settling both
\* changed the client state
C5_Witness ==
    /\ AnsweredDispatch
    /\ lastResponse.type = "CONNECT_BLOCKS"
    /\ lastResponse.after # lastResponse.initial
    /\ lastResponse.state # lastResponse.after
    /\ lastResponse.diffs # {}

(***************************************************************************)
(* Properties of REVOKE_KEY and of the pipeline's steps.                   *)
(***************************************************************************)
\* C11: a RevokeKey on an active envkey E goes ahead only if canRevokeKey
\* holds; its result leaves E not active and carries exactly one hard-delete
\* scope, "envkey|" + E.envkeyIdPart, and exactly one socket invalidation,
\* naming E; the commit writes that graph and emits those two items.
C11_RevokeRetiresAndInvalidates ==
    /\ IsProposed({"REVOKE_KEY"}) =>
         LET E == txn.payload.id
         IN  /\ canRevokeKey(orgGraph, txn.auth.userId, E)
             /\ E \in getActiveGeneratedEnvkeys(orgGraph)
             /\ E \notin getActiveGeneratedEnvkeys(txn.result.graph)
             /\ txn.result.hardDeleteScopes =
                    << <<"envkey|">> \o orgGraph[E].envkeyIdPart >>
             /\ txn.result.clearEnvkeySockets = << E >>
    /\ IsCommitted({"REVOKE_KEY"}) =>
         LET E == txn.payload.id
         IN  /\ E \in DOMAIN orgGraph
             /\ E \notin getActiveGeneratedEnvkeys(orgGraph)
             /\ txn.hardDeleteScopes =
                    << <<"envkey|">> \o orgGraph[E].envkeyIdPart >>
             /\ txn.clearEnvkeySockets = << E >>

\* a RevokeKey was committed
C11_Witness ==
    /\ IsCommitted({"REVOKE_KEY"})
    /\ Len(txn.clearEnvkeySockets) = 1

(***************************************************************************)
(* Properties of the core process's control surface.                       *)
(***************************************************************************)
\* C12: a request on any route but GET /alive whose user-agent token is not
\* valid is answered 401 and stops nothing.
C12_UnauthenticatedRequestsRefused ==
    ( /\ lastResponse.route \notin {"none", "alive"}
      /\ ~lastResponse.tokenValid )
    => /\ lastResponse.code = 401
       /\ running

\* what each action type's graphAuthorizer has to find for the action to go on
AuthorizerHolds(type, payload, graph, auth, license) ==
    LET byParent == getActiveGeneratedEnvkeysByKeyableParentId(graph)
        others == IF type = "GENERATE_KEY" /\ payload.keyableParentId \in DOMAIN byParent
                  THEN Cardinality(DOMAIN byParent) - 1
                  ELSE Cardinality(DOMAIN byParent)
        withinLicense == license = -1 \/ others < license
    IN  CASE type = "CREATE_SERVER" ->
               withinLicense /\ canCreateServer(graph, auth.userId, payload.environmentId)
          [] type = "DELETE_SERVER" -> canDeleteServer(graph, auth.userId, payload.id)
          [] type = "CREATE_LOCAL_KEY" ->
               /\ auth.type = "tokenAuthContext"
               /\ canCreateLocalKey(graph, auth.userId, payload.environmentId)
          [] type = "DELETE_LOCAL_KEY" -> canDeleteLocalKey(graph, auth.userId, payload.id)
          [] type = "GENERATE_KEY" ->
               /\ payload.keyableParentType = "server" => withinLicense
               /\ canGenerateKey(graph, auth.userId, payload.keyableParentId)
          [] type = "REVOKE_KEY" -> canRevokeKey(graph, auth.userId, payload.id)

\* C13: an action whose graphAuthorizer returns false ends Rejected with the
\* graph as it was, no id drawn and no handler result (no graph, transaction
\* item, hard-delete scope or socket invalidation); a graphHandler's result
\* exists only for an action its authorizer let through.
C13_RejectedBeforeAnyMutation ==
    [][ /\ (txn.status = "idle" /\ txn'.status = "Rejected")
            => /\ orgGraph' = orgGraph
               /\ nextUuid' = nextUuid
               /\ DOMAIN txn' \cap {"result", "createdId", "hardDeleteScopes",
                                    "clearEnvkeySockets"} = {}
               /\ txn'.error = "Unauthorized"
        /\ (txn.status = "idle" /\ txn'.status = "proposed")
            => AuthorizerHolds(txn'.type, txn'.payload, orgGraph, txn'.auth,
                               maxServerEnvkeys)
        /\ (txn.status = "Rejected") => orgGraph' = orgGraph
      ]_vars

\* a CreateServer of an actor without the permission was rejected
C13_Witness ==
    /\ txn.status = "Rejected"
    /\ txn.type = "CREATE_SERVER"
    /\ ~HasManageCapability(txn.userId)

AllActionTypes ==
    { "CREATE_SERVER", "DELETE_SERVER", "CREATE_LOCAL_KEY", "DELETE_LOCAL_KEY",
      "GENERATE_KEY", "REVOKE_KEY" }

\* C14: while an action's result is proposed the committed graph is still the
\* pre-action graph; the step that ends it either writes the whole result
\* (graph with its counter, hard-delete scopes, socket invalidations) or, on
\* failure, nothing; and a committed GenerateKey has the new envkey active
\* together with every prior envkey of the parent retired and its blob scope
\* in the same transaction.
C14_CommitIsAllOrNothing ==
    [][ IsProposed(AllActionTypes) =>
          /\ txn.type \in CreatingTypes => txn.result.createdId \notin DOMAIN orgGraph
          /\ \/ /\ txn'.status = "Committed"
                /\ orgGraph' = txn.result.graph
                /\ txn'.hardDeleteScopes = txn.result.hardDeleteScopes
                /\ txn'.clearEnvkeySockets = txn.result.clearEnvkeySockets
                /\ txn.type = "GENERATE_KEY" =>
                     /\ txn.result.createdId \in getActiveGeneratedEnvkeys(orgGraph')
                     /\ \A E \in ActiveEnvkeysOf(orgGraph, txn.payload.keyableParentId) :
                          /\ E \notin getActiveGeneratedEnvkeys(orgGraph')
                          /\ \E i \in 1..Len(txn'.hardDeleteScopes) :
                                txn'.hardDeleteScopes[i] =
                                    <<"envkey|">> \o orgGraph[E].envkeyIdPart
             \/ /\ txn'.status = "Failed"
                /\ orgGraph' = orgGraph
      ]_vars

\* a GenerateKey that replaced an envkey was committed
C14_Witness ==
    /\ IsCommitted({"GENERATE_KEY"})
    /\ Len(txn.hardDeleteScopes) = 1
    /\ txn.createdId \in getActiveGeneratedEnvkeys(orgGraph)

(***************************************************************************)
(* Properties of the dispatch of serial actions.                           *)
(***************************************************************************)
\* a and b are CONNECT_BLOCKS actions, which blocks.ts declares serialAction,
\* on overlapping resource keys
OverlappingConnectBlocks(a, b) ==
    /\ a.type = "CONNECT_BLOCKS"
    /\ b.type = "CONNECT_BLOCKS"
    /\ a.keys \cap b.keys # {}

ScopeA == scopeArgs[1]
ScopeB == scopeArgs[2]
ScopeC == scopeArgs[3]

\* on one dimension, the merge of x and y is "all" if either is, and else
\* the union of the two sets
IsMergeOf(z, x, y) ==
    IF x.all \/ y.all
    THEN z.all
    ELSE ~z.all /\ z.ids = x.ids \cup y.ids

\* C16: mergeAccessScopes is commutative and associative, unions each
\* dimension, and is "all" on a dimension where an argument is; the scopes of
\* CreateAppBlockGroup, CreateAppGroupBlock and CreateAppGroupBlockGroup have
\* userIds = "all" and keyableParentIds = "all" whatever the groups hold.
C16_MergeAccessScopesAlgebra ==
    /\ mergeAccessScopes(ScopeA, ScopeB) = mergeAccessScopes(ScopeB, ScopeA)
    /\ mergeAccessScopes(mergeAccessScopes(ScopeA, ScopeB), ScopeC)
         = mergeAccessScopes(ScopeA, mergeAccessScopes(ScopeB, ScopeC))
    /\ LET m == mergeAccessScopes(ScopeA, ScopeB)
       IN  /\ IsMergeOf(m.envParentIds, ScopeA.envParentIds, ScopeB.envParentIds)
           /\ IsMergeOf(m.userIds, ScopeA.userIds, ScopeB.userIds)
           /\ IsMergeOf(m.keyableParentIds, ScopeA.keyableParentIds,
                        ScopeB.keyableParentIds)
    /\ scopeResult.by \in { "CREATE_APP_BLOCK_GROUP", "CREATE_APP_GROUP_BLOCK",
                            "CREATE_APP_GROUP_BLOCK_GROUP" }
         => /\ scopeResult.scope.userIds.all
            /\ scopeResult.scope.keyableParentIds.all

\* the scope of a CreateAppGroupBlockGroup was computed from two group
\* scopes that name finite sets of users and keyable parents
C16_Witness ==
    /\ scopeResult.by = "CREATE_APP_GROUP_BLOCK_GROUP"
    /\ ~ScopeA.userIds.all /\ ~ScopeB.userIds.all
    /\ ~ScopeA.keyableParentIds.all /\ ~ScopeB.keyableParentIds.all
    /\ ScopeA.envParentIds # ScopeB.envParentIds

(***************************************************************************)
(* Properties of the device lock and the lockout timer.                    *)
(***************************************************************************)
\* the step answers a LOCK_DEVICE action that the handler found unlocked
AnswersLockDevice ==
    /\ lastResponse = NoResponse
    /\ lastResponse'.route = "action"
    /\ lastResponse'.type = "LOCK_DEVICE"
    /\ ~lastResponse'.lockedOnArrival

\* C17: a LOCK_DEVICE action on an unlocked device without a passphrase is
\* answered with an error and leaves the device unlocked, the store and the
\* persisted state as they were and the org sockets open; with a passphrase
\* it locks the device and is answered with the locked state.
C17_LockDeviceNeedsPassphrase ==
    [][ AnswersLockDevice =>
          /\ ~locked /\ reduxStore.defined
          /\ IF ~reduxStore.requiresPassphrase
             THEN /\ lastResponse'.code = 422
                  /\ lastResponse'.body = "noPassphrase"
                  /\ ~locked'
                  /\ reduxStore' = reduxStore
                  /\ persisted' = persisted
                  /\ lockoutTimeout' = lockoutTimeout
                  /\ orgSocketsOpen /\ orgSocketsOpen'
                  /\ lastSocketMsg' = NoSocketMsg
             ELSE /\ lastResponse'.code = 200
                  /\ lastResponse'.body = LockedState
                  /\ locked'
                  /\ reduxStore' = NoStore
                  /\ lockoutTimeout' = 0
                  /\ ~orgSocketsOpen'
      ]_vars

\* a LOCK_DEVICE action was refused on a device that has no passphrase
C17_Witness ==
    /\ lastResponse.route = "action"
    /\ lastResponse.type = "LOCK_DEVICE"
    /\ lastResponse.code = 422
    /\ ~locked /\ reduxStore.defined /\ ~reduxStore.requiresPassphrase
    /\ orgSocketsOpen

\* the device is unlocked and has been idle for longer than lockoutMs
IdleExpired ==
    /\ ~locked
    /\ reduxStore.defined
    /\ reduxStore.lockoutMs # 0
    /\ reduxStore.lastActiveAt # 0
    /\ clock - reduxStore.lastActiveAt > reduxStore.lockoutMs

\* the step takes an authenticated GET /state or POST /action up to its
\* response
AnswersRequest ==
    /\ lastResponse = NoResponse
    /\ lastResponse'.route \in {"state", "action"}
    /\ pending' = pending

\* the answer carries no client state and no diffs
CarriesNoState(resp) ==
    /\ resp.body \notin {"state", "dispatchRes"}
    /\ resp.state = EmptyObject
    /\ resp.diffs = {}

\* the step leaves the process as the outcome out says
StepIs(out) ==
    /\ out.responded
    /\ lastResponse' = out.resp
    /\ locked' = out.m.locked
    /\ reduxStore' = out.m.store
    /\ persisted' = out.m.persisted
    /\ lockoutTimeout' = out.m.timer
    /\ orgSocketsOpen' = out.m.org
    /\ lastSocketMsg' = out.m.sock

\* C18: an authenticated GET /state or POST /action that arrives on an
\* unlocked device idle for longer than lockoutMs finds the device locked:
\* it is answered as the same request to a locked device is, no action is
\* left awaiting a dispatch, and unless the request itself unlocks the
\* device, the device stays locked without a store and the answer carries
\* no state.
C18_IdleLockoutBeforeHandler ==
    [][ IdleExpired =>
          /\ Len(pending') <= Len(pending)
          /\ AnswersRequest =>
               /\ lastResponse'.lockedOnArrival
               /\ \/ \E hasClientId \in BOOLEAN :
                        StepIs(GetStateHandler(lockDevice(ProcNow), hasClientId, clock))
                  \/ \E r \in PostActionRequests :
                        StepIs(PostActionHandler(lockDevice(ProcNow), r.type,
                                                 r.passphraseOk, clock))
               /\ lastResponse'.route = "state" =>
                    lastResponse'.code = 200 /\ lastResponse'.body = LockedState
               /\ \/ /\ lastResponse'.type \in {"UNLOCK_DEVICE", "LOAD_RECOVERY_KEY"}
                     /\ lastResponse'.code = 200
                  \/ /\ locked'
                     /\ reduxStore' = NoStore
                     /\ lockoutTimeout' = 0
                     /\ CarriesNoState(lastResponse')
      ]_vars

\* a GET /state that arrived on an unlocked device after the idle time had
\* run out, with the timer still pending, was answered with the locked state
C18_Witness ==
    /\ lastResponse.route = "state"
    /\ lastResponse.body = LockedState
    /\ locked
    /\ lastSocketMsg = FullUpdateMsg
    /\ persisted.lockoutMs # 0

\* the store has a passphrase and a lockout set
LockoutConfigured(store) ==
    store.defined /\ store.requiresPassphrase /\ store.lockoutMs # 0

\* the step answers a POST /action with 200: the action was handled, an
\* UNLOCK_DEVICE that unlocked the device included
HandlesAction ==
    /\ lastResponse = NoResponse
    /\ lastResponse'.route = "action"
    /\ lastResponse'.code = 200

LockedStateResponse == Response(200, "state", "none", TRUE, LockedState)

\* C20: on a locked device an authenticated GET /state is answered with the
\* locked state, with or without a clientId, and with no account or graph
\* state; nothing is dispatched, the store, the persisted state and the
\* pending requests stay as they are, and no lockout timer is armed.
C20_LockedGetStateIsSentinel ==
    /\ [](locked =>
            \A hasClientId \in BOOLEAN :
                GetStateHandler(lockoutIfNeeded(ProcNow, clock), hasClientId, clock)
                    = Outcome(ProcNow, LockedStateResponse))
    /\ [][ (locked /\ lastResponse = NoResponse /\ lastResponse'.route = "state") =>
             /\ lastResponse' = LockedStateResponse
             /\ CarriesNoState(lastResponse')
             /\ locked'
             /\ reduxStore' = reduxStore
             /\ persisted' = persisted
             /\ pending' = pending
             /\ lockoutTimeout' = 0
             /\ lastSocketMsg' = NoSocketMsg
         ]_vars

\* a GET /state was answered on a device that was locked when it arrived,
\* while the persisted state holds a passphrase
C20_Witness ==
    /\ locked
    /\ lastResponse = LockedStateResponse
    /\ lastSocketMsg = NoSocketMsg
    /\ persisted.requiresPassphrase
    /\ lockoutTimeout = 0

(***************************************************************************)
(* Properties of the answers to POST /action.                              *)
(***************************************************************************)
\* C21: every authenticated POST /action gets one answer that tells the
\* outcome of the action: a request whose dispatch has settled is answered
\* 200 with its dispatch result and diffs, also when the lockout timer
\* locked the device while the dispatch was pending, and it then awaits
\* nothing more.
C21_ActionAnsweredWithItsOutcome ==
    [][ \A i \in 1..Len(pending), success \in BOOLEAN :
          (~pending[i].orphaned /\ FinishAction(i, success)) =>
             /\ lastResponse'.route = "action"
             /\ lastResponse'.type = pending[i].type
             /\ lastResponse'.code = 200
             /\ lastResponse'.body = "dispatchRes"
             /\ Len(pending') = Len(pending) - 1
      ]_vars

(***************************************************************************)
(* Properties of the block connections.                                    *)
(***************************************************************************)
\* the step dispatches DISCONNECT_BLOCK on an appBlock the graph holds
DisconnectsAppBlock ==
    /\ blocksOut'.by = "DISCONNECT_BLOCK"
    /\ blocksOut'.id \in DOMAIN userGraph
    /\ userGraph[blocksOut'.id].type = "appBlock"

\* C22: a DisconnectBlock on connection node C takes C, and nothing else,
\* out of the graph, and its encrypted-keys scope has envParentIds
\* {C.appId, C.blockId}, userIds "all" and keyableParentIds "all", read from
\* C as the graph held it before the removal.
C22_DisconnectBlockScope ==
    [][ DisconnectsAppBlock =>
          LET C == userGraph[blocksOut'.id]
          IN  /\ blocksOut'.error = "none"
              /\ blocksOut'.node = C
              /\ blocksOut'.id \notin DOMAIN userGraph'
              /\ userGraph' = [ i \in DOMAIN userGraph \ {blocksOut'.id} |->
                                  userGraph[i] ]
              /\ blocksOut'.scope.envParentIds = SetOf({C["appId"], C["blockId"]})
              /\ Cardinality(blocksOut'.scope.envParentIds.ids) = 2
              /\ blocksOut'.scope.userIds = All
              /\ blocksOut'.scope.keyableParentIds = All
      ]_vars

\* an appBlock was disconnected while another connection stays in the graph
C22_Witness ==
    /\ blocksOut.by = "DISCONNECT_BLOCK"
    /\ blocksOut.error = "none"
    /\ blocksOut.node # EmptyObject
    /\ blocksOut.node["type"] = "appBlock"
    /\ blocksOut.scope.envParentIds = SetOf({"app1", "block1"})
    /\ userGraph # EmptyObject

(***************************************************************************)
(* Properties of the local socket notifications.                           *)
(***************************************************************************)
\* how many times client c has received notification k
TimesReceived(c, k) ==
    Cardinality({ i \in 1..Len(inbox[c]) : inbox[c][i] = k })

\* C23: every local socket notification reaches a subscriber at most once,
\* and only a subscriber whose connection was OPEN when it was sent: one
\* that was not OPEN then has not received it at any later time, whatever
\* it has done since; one that was OPEN has it once when no send threw.
C23_SocketDeliveryAtMostOnce ==
    \A c \in SocketClients, k \in 1..Len(socketLog) :
        /\ TimesReceived(c, k) <= 1
        /\ c \notin socketLog[k].open => TimesReceived(c, k) = 0
        /\ (c \in socketLog[k].open /\ ~socketLog[k].threw)
              => TimesReceived(c, k) = 1

\* a client that was closing when the first notification went out has since
\* reconnected and received the second one alone
C23_Witness ==
    /\ Len(socketLog) = 2
    /\ \E c \in SocketClients :
          /\ c \notin socketLog[1].open
          /\ socketLog[1].open # {}
          /\ c \in socketLog[2].open
          /\ inbox[c] = <<2>>

\* C24: a socket send that throws does not change the outcome of the action
\* it announces: the request goes on as it does when the send returns, it
\* awaits the dispatch it started and is answered by nothing but the result
\* of that dispatch, and the store and the persisted state are the same.
C24_SendFailureKeepsOutcome ==
    [][ \A r \in PostActionRequests :
          (r.sendThrows
             /\ PostAction(r.type, r.tokenValid, r.passphraseOk, r.sendThrows)) =>
             LET out == PostActionHandler(lockoutIfNeeded(ProcNow, clock),
                                          r.type, r.passphraseOk, clock)
             IN  /\ pending' = pending \o out.queued
                 /\ lastResponse' =
                       IF out.responded THEN out.resp ELSE lastResponse
                 /\ reduxStore' = out.m.store
                 /\ persisted' = out.m.persisted
                 /\ locked' = out.m.locked
      ]_vars

(***************************************************************************)
(* Properties of the envkey nodes over the life of the graph.              *)
(***************************************************************************)
\* the ids of the generatedEnvkey nodes of a graph
GeneratedEnvkeyIds(graph) ==
    { id \in DOMAIN graph : graph[id].type = "generatedEnvkey" }

\* C25: an envkey that was rotated, revoked or deleted with its parent is
\* never active again under the same id, no id of the graph ever names a
\* node of another kind, and every committed GenerateKey puts its active
\* node under an id the graph has never held.
C25_EnvkeyLifecycleIsOneWay ==
    [][ /\ \A id \in GeneratedEnvkeyIds(orgGraph) :
             /\ id \in GeneratedEnvkeyIds(orgGraph')
             /\ orgGraph[id].deletedAt => orgGraph'[id].deletedAt
        /\ \A id \in GeneratedEnvkeyIds(orgGraph') \ GeneratedEnvkeyIds(orgGraph) :
             /\ id \notin DOMAIN orgGraph
             /\ ~orgGraph'[id].deletedAt
             /\ txn'.status = "Committed" /\ txn'.type = "GENERATE_KEY"
             /\ txn'.createdId = id
        /\ (txn'.status = "Committed" /\ txn'.type = "GENERATE_KEY"
               /\ txn.status = "proposed") =>
             /\ txn'.createdId \notin DOMAIN orgGraph
             /\ txn'.createdId \in getActiveGeneratedEnvkeys(orgGraph')
      ]_vars

\* a parent's envkey was rotated: the old node is retired, the new one is
\* active under a later id, and the old one was revoked or rotated before
C25_Witness ==
    /\ txn.status = "Committed" /\ txn.type = "GENERATE_KEY"
    /\ \E old \in GeneratedEnvkeyIds(orgGraph) :
          /\ orgGraph[old].deletedAt
          /\ old < txn.createdId
          /\ orgGraph[old].keyableParentId = orgGraph[txn.createdId].keyableParentId
          /\ ~orgGraph[txn.createdId].deletedAt

\* the fields of an envkey node that identify the key and its parent
EnvkeyIdentity(node) ==
    << node.envkeyIdPart, node.envkeyIdPartHash, node.envkeyShort,
       node.keyableParentId >>

\* C26: no step changes envkeyIdPart, envkeyIdPartHash, envkeyShort or
\* keyableParentId of a generatedEnvkey node the graph already holds.
C26_EnvkeyIdentityIsConstant ==
    [][ \A id \in GeneratedEnvkeyIds(orgGraph) :
            id \in DOMAIN orgGraph' =>
                EnvkeyIdentity(orgGraph'[id]) = EnvkeyIdentity(orgGraph[id])
      ]_vars

\* an envkey that other actions have passed over: it was issued, a second
\* envkey was issued with another key, and the first one has been revoked
C26_Witness ==
    /\ txn.status = "Committed" /\ txn.type = "REVOKE_KEY"
    /\ orgGraph[txn.payload.id].deletedAt
    /\ \E other \in GeneratedEnvkeyIds(orgGraph) :
          /\ other # txn.payload.id
          /\ orgGraph[other].envkeyIdPart # orgGraph[txn.payload.id].envkeyIdPart

\* the handler's result is the received graph plus one node under a new id
AddsOnlyTheNewNode(result, graph, nodeType) ==
    /\ result.createdId \notin DOMAIN graph
    /\ DOMAIN result.graph = DOMAIN graph \cup {result.createdId}
    /\ result.graph[result.createdId].type = nodeType
    /\ \A id \in DOMAIN graph : result.graph[id] = graph[id]

\* C27: a graph handler's result is a graph value of its own. While an
\* action is proposed the stored graph is still the one the handler was
\* given, the stored graph changes only by being replaced whole with a
\* proposed result, and what CreateServer and CreateLocalKey propose is the
\* graph they were given plus the one new node.
C27_HandlersReturnNewGraph ==
    /\ [](txn.status = "proposed" =>
            /\ txn.type = "CREATE_SERVER" =>
                   AddsOnlyTheNewNode(txn.result, orgGraph, "server")
            /\ txn.type = "CREATE_LOCAL_KEY" =>
                   AddsOnlyTheNewNode(txn.result, orgGraph, "localKey"))
    /\ [][ /\ txn'.status = "proposed" => orgGraph' = orgGraph
           /\ orgGraph' # orgGraph =>
                 /\ txn.status = "proposed" /\ txn'.status = "Committed"
                 /\ orgGraph' = txn.result.graph
         ]_vars

\* a local key is proposed on a graph that already holds two other nodes
\* of the org, and the stored graph does not show it yet
C27_Witness ==
    /\ txn.status = "proposed" /\ txn.type = "CREATE_LOCAL_KEY"
    /\ Cardinality(DOMAIN orgGraph) >= 3
    /\ txn.result.graph # orgGraph
    /\ txn.result.createdId \notin DOMAIN orgGraph

\* an envkey is committed by the action in the pipeline
IssuesEnvkey ==
    /\ txn.status = "proposed" /\ txn.type = "GENERATE_KEY"
    /\ txn'.status = "Committed"

\* C28: the envkey a GenerateKey commits carries creatorId = the acting
\* user; for an issuer with a device token creatorDeviceId and signedById
\* are the acting device, for any other issuer creatorDeviceId is unset and
\* signedById is the acting user.
C28_IssuerStamps ==
    [][ IssuesEnvkey =>
          LET node == orgGraph'[txn'.createdId]
              auth == txn.auth
          IN  /\ node.type = "generatedEnvkey"
              /\ node.creatorId = auth.userId
              /\ IF auth.type = "tokenAuthContext"
                 THEN /\ node.creatorDeviceId = auth.deviceId
                      /\ node.signedById = auth.deviceId
                 ELSE /\ node.creatorDeviceId = Undefined
                      /\ node.signedById = auth.userId
      ]_vars

\* the graph holds an envkey issued with a device token and one issued
\* with a CLI key
C28_Witness ==
    \E byToken, byCli \in GeneratedEnvkeyIds(orgGraph) :
        /\ orgGraph[byToken].creatorDeviceId = "d1"
        /\ orgGraph[byToken].signedById = "d1"
        /\ orgGraph[byCli].creatorDeviceId = Undefined
        /\ orgGraph[byCli].signedById = orgGraph[byCli].creatorId
        /\ txn.status = "Committed" /\ txn.type = "GENERATE_KEY"

\* C29: a RevokeKey by a caller who may revoke keys, on an id that names no
\* active generatedEnvkey, ends with a NotFound or InvalidState error,
\* leaves the graph as it is and puts no hard-delete scope and no socket
\* invalidation in the transaction.
C29_RevokeOfInactiveIsNotFound ==
    [][ \A auth \in TokenAuths, payload \in IdPayloads :
          ( /\ HasManageCapability(auth.userId)
            /\ payload.id \notin getActiveGeneratedEnvkeys(orgGraph)
            /\ RevokeKey(auth, payload) ) =>
              /\ txn'.status = "Rejected"
              /\ txn'.error \in {"NotFound", "InvalidState"}
              /\ orgGraph' = orgGraph
              /\ "hardDeleteScopes" \notin DOMAIN txn'
              /\ "clearEnvkeySockets" \notin DOMAIN txn'
      ]_vars

\* the target fields an entry has on the app side and on the block side
AppSide(entry) == DOMAIN entry \cap {"appId", "appGroupId"}
BlockSide(entry) == DOMAIN entry \cap {"blockId", "blockGroupId"}

\* the entry names one target on each side
OneTargetPerSide(entry) ==
    Cardinality(AppSide(entry)) = 1 /\ Cardinality(BlockSide(entry)) = 1

\* the elementary action type the table gives a pair of target fields
ElementaryTypeOf(entry) ==
    CASE AppSide(entry) = {"appId"} /\ BlockSide(entry) = {"blockId"} ->
            "CONNECT_BLOCK"
      [] AppSide(entry) = {"appId"} /\ BlockSide(entry) = {"blockGroupId"} ->
            "CREATE_APP_BLOCK_GROUP"
      [] AppSide(entry) = {"appGroupId"} /\ BlockSide(entry) = {"blockId"} ->
            "CREATE_APP_GROUP_BLOCK"
      [] AppSide(entry) = {"appGroupId"} /\ BlockSide(entry) = {"blockGroupId"} ->
            "CREATE_APP_GROUP_BLOCK_GROUP"

\* C30: the elementary action made for a CONNECT_BLOCKS entry that names one
\* app-side and one block-side target has the type the table gives that
\* pair, which is a defined type, and the payload of every elementary
\* action holds exactly the fields the entry defines among appId,
\* appGroupId, blockId, blockGroupId and orderIndex, with the entry's values.
C30_ConnectBlocksMapping ==
    blocksOut.by = "CONNECT_BLOCKS" =>
        LET entry == blocksOut.entry
            action == blocksOut.action
        IN  /\ OneTargetPerSide(entry) =>
                  /\ action.type = ElementaryTypeOf(entry)
                  /\ action.type # Undefined
            /\ DOMAIN action.payload = DOMAIN entry \cap PickedFields
            /\ \A f \in DOMAIN action.payload : action.payload[f] = entry[f]

\* an app group was connected to a block by an entry that also carried a
\* field the elementary actions do not know
C30_Witness ==
    /\ blocksOut.by = "CONNECT_BLOCKS"
    /\ OneTargetPerSide(blocksOut.entry)
    /\ AppSide(blocksOut.entry) = {"appGroupId"}
    /\ BlockSide(blocksOut.entry) = {"blockId"}
    /\ "other" \in DOMAIN blocksOut.entry
    /\ blocksOut.action.type = "CREATE_APP_GROUP_BLOCK"
    /\ blocksOut.id \in DOMAIN userGraph

\* the process runs with the device unlocked and a passphrase and a lockout
\* set
UnlockedWithLockout ==
    /\ running /\ ~locked
    /\ reduxStore.defined
    /\ reduxStore.requiresPassphrase /\ reduxStore.lockoutMs # 0

\* the device is locked: no store, the org sockets closed
LockedDown ==
    locked /\ ~reduxStore.defined /\ ~orgSocketsOpen /\ lockoutTimeout = 0

\* C31: a device that is unlocked with a passphrase and a lockout set has a
\* lockout timer pending; unless /state or /action requests keep arriving it
\* does not stay that way; and when it leaves that state by anything but a
\* request or the stop of the process, it is locked, with the store cleared,
\* the org sockets closed and the local sockets told to refetch.
C31_IdleDeviceLocks ==
    /\ [](UnlockedWithLockout => lockoutTimeout # 0)
    /\ ([]<>(~UnlockedWithLockout) \/ []<><<RequestArrives>>_vars)
    /\ [][ (UnlockedWithLockout /\ ~UnlockedWithLockout'
                /\ ~RequestArrives /\ running') =>
              (LockedDown' /\ lastSocketMsg' = FullUpdateMsg)
         ]_vars

\* the timer locked a device that had been left idle with a lockout set
C31_Witness ==
    /\ LockedDown
    /\ running
    /\ lastSocketMsg = FullUpdateMsg
    /\ lastResponse = NoResponse
    /\ persisted.requiresPassphrase /\ persisted.lockoutMs # 0
    /\ clock > 1

\* C32: the device leaves Locked only in the step of an authenticated
\* UNLOCK_DEVICE whose passphrase check succeeds or of an authenticated
\* LOAD_RECOVERY_KEY, and an authenticated UNLOCK_DEVICE whose passphrase
\* check fails on a locked device is answered with an error and leaves the
\* device locked, with no store, no lockout timer and the org sockets closed.
C32_LockedLeftOnlyByUnlock ==
    [][ /\ (locked /\ ~locked') =>
              \/ PostAction("UNLOCK_DEVICE", TRUE, TRUE, FALSE)
              \/ PostAction("LOAD_RECOVERY_KEY", TRUE, TRUE, FALSE)
        /\ (locked /\ PostAction("UNLOCK_DEVICE", TRUE, FALSE, FALSE)) =>
              /\ lastResponse'.code = 403
              /\ lastResponse'.body = "unlockError"
              /\ locked'
              /\ ~reduxStore'.defined
              /\ lockoutTimeout' = 0
              /\ ~orgSocketsOpen'
              /\ pending' = pending
      ]_vars

\* a wrong passphrase was refused on a device that the lockout had locked
C32_Witness ==
    /\ lastResponse.type = "UNLOCK_DEVICE"
    /\ lastResponse.body = "unlockError"
    /\ lastResponse.lockedOnArrival
    /\ LockedDown
    /\ persisted.lockoutMs # 0

C34_OneLockoutTimer ==
    /\ [](Cardinality(eventLoopTimers) <= 1)
    /\ [][ \A t \in eventLoopTimers :
              TimerCallbackRuns(t) =>
                  /\ t.id = lockoutHandle
                  /\ timerNow - activeAt >= LockoutMs
         ]_vars

\* the active server envkeys other than the one of parent p
ActiveServerEnvkeysBeside(graph, p) ==
    ActiveServerEnvkeys(graph) \ ActiveEnvkeysOf(graph, p)

\* C35: the quota checks of GenerateKey and CreateServer count only active
\* envkeys of Server parents: a permitted actor's CreateServer or server
\* GenerateKey is let through whenever the active server envkeys (the
\* parent's own aside) number fewer than license.maxServerEnvkeys, however
\* many LocalKey envkeys are active, and a GenerateKey for a LocalKey parent
\* is let through whatever the counts.
C35_QuotaCountsServerEnvkeysOnly ==
    \A auth \in TokenAuths :
        /\ \A payload \in CreatePayloads :
              ( /\ canCreateServer(orgGraph, auth.userId, payload.environmentId)
                /\ \/ maxServerEnvkeys = -1
                   \/ Cardinality(ActiveServerEnvkeys(orgGraph)) < maxServerEnvkeys )
              => CreateServerAuthorizer(payload, orgGraph, auth, maxServerEnvkeys)
        /\ \A payload \in GenerateKeyPayloads :
              ( /\ canGenerateKey(orgGraph, auth.userId, payload.keyableParentId)
                /\ payload.keyableParentType = orgGraph[payload.keyableParentId].type
                /\ \/ payload.keyableParentType = "localKey"
                   \/ maxServerEnvkeys = -1
                   \/ Cardinality(ActiveServerEnvkeysBeside(orgGraph,
                          payload.keyableParentId)) < maxServerEnvkeys )
              => GenerateKeyAuthorizer(payload, orgGraph, auth, maxServerEnvkeys)

\* C36: a GenerateKey on a server that has an active envkey, by an actor who
\* may generate keys, passes the authorizer exactly when the license is
\* unlimited or the active envkeys less the server's own number fewer than
\* license.maxServerEnvkeys, and its result holds no more active envkeys than
\* the graph before it.
C36_RegenerateDiscountsOwnEnvkey ==
    /\ \A auth \in TokenAuths, payload \in GenerateKeyPayloads :
          ( /\ IsActiveNode(orgGraph, payload.keyableParentId, {"server"})
            /\ ActiveEnvkeysOf(orgGraph, payload.keyableParentId) # {}
            /\ canGenerateKey(orgGraph, auth.userId, payload.keyableParentId) )
          => ( GenerateKeyAuthorizer(payload, orgGraph, auth, maxServerEnvkeys)
                 <=> \/ maxServerEnvkeys = -1
                     \/ NumActive(orgGraph) - 1 < maxServerEnvkeys )
    /\ ( /\ IsProposed({"GENERATE_KEY"})
         /\ IsActiveNode(orgGraph, txn.payload.keyableParentId, {"server"})
         /\ ActiveEnvkeysOf(orgGraph, txn.payload.keyableParentId) # {} )
       => Cardinality(getActiveGeneratedEnvkeys(txn.result.graph))
              <= Cardinality(getActiveGeneratedEnvkeys(orgGraph))

\* the license limit is finite and the active generated envkeys reach it
LicenseLimitReached ==
    maxServerEnvkeys # -1 /\ NumActive(orgGraph) >= maxServerEnvkeys

\* C37: a CreateServer is rejected whenever the license limit is finite and
\* the active generated envkeys of the pre-action graph number at least
\* maxServerEnvkeys, whoever the actor is; otherwise it is let through
\* exactly when canCreateServer(actor, environmentId) holds.
C37_CreateServerQuotaThenRole ==
    [][ \A auth \in TokenAuths, payload \in CreatePayloads :
          CreateServer(auth, payload) =>
              /\ LicenseLimitReached => txn'.status = "Rejected"
              /\ ~LicenseLimitReached =>
                    ( txn'.status = "proposed" <=>
                        canCreateServer(orgGraph, auth.userId,
                                        payload.environmentId) )
      ]_vars

\* an actor who may create servers had a CreateServer rejected at the limit
C37_Witness ==
    /\ txn.status = "Rejected"
    /\ txn.type = "CREATE_SERVER"
    /\ HasManageCapability(txn.userId)
    /\ LicenseLimitReached
    /\ NumActive(orgGraph) > 0

\* C39: no hard-delete scope of a GenerateKey's result is the blob key
\* "envkey|" + envkeyIdPart of the envkey that GenerateKey issues.
C39_RotationSparesNewBlob ==
    IsProposed({"GENERATE_KEY"}) =>
        LET new == txn.result.graph[txn.result.createdId]
        IN  \A i \in DOMAIN txn.result.hardDeleteScopes :
                txn.result.hardDeleteScopes[i] # EnvkeyPkey(new.envkeyIdPart)

\* the step leaves a request awaiting its dispatch, its socket update sent
QueuesRequest ==
    /\ Len(pending') = Len(pending) + 1
    /\ ~pending'[Len(pending')].orphaned

\* the step answers a POST /action with the result of its dispatch
AnswersDispatch ==
    /\ lastResponse' # lastResponse
    /\ lastResponse'.route = "action"
    /\ lastResponse'.body = "dispatchRes"

\* C38: an asyncClientAction or apiRequestAction without
\* skipLocalSocketUpdate broadcasts, before it awaits its dispatch, a diffs
\* message that takes the pre-action client state to the state right after
\* the dispatch call, and its response's diffs take that state to
\* dispatchRes.state, the client state of the store the request leaves; any
\* other action broadcasts no diffs message and its
\* response's diffs take the pre-action state to dispatchRes.state.
C38_SocketThenResponseDiffs ==
    [][ /\ QueuesRequest =>
              LET req == pending'[Len(pending')]
              IN  /\ ShouldSendSocketUpdate(req.type)
                  /\ req.initial = getState(reduxStore)
                  /\ lastSocketMsg'.type = "diffs"
                  /\ applyPatch(req.initial, lastSocketMsg'.diffs) = req.after
                  /\ req.after = getState(reduxStore')
        /\ (AnswersDispatch /\ ShouldSendSocketUpdate(lastResponse'.type)) =>
              /\ \E i \in 1..Len(pending) :
                    /\ pending[i].initial = lastResponse'.initial
                    /\ pending[i].after = lastResponse'.after
                    /\ pending' = [ j \in 1..(Len(pending) - 1) |->
                                      IF j < i THEN pending[j] ELSE pending[j + 1] ]
              /\ applyPatch(lastResponse'.after, lastResponse'.diffs)
                     = lastResponse'.state
              /\ reduxStore'.defined => lastResponse'.state = getState(reduxStore')
        /\ (AnswersDispatch /\ ~ShouldSendSocketUpdate(lastResponse'.type)) =>
              /\ lastSocketMsg'.type # "diffs"
              /\ ~lastResponse'.lockedOnArrival =>
                    lastResponse'.initial = getState(reduxStore)
              /\ applyPatch(lastResponse'.initial, lastResponse'.diffs)
                     = lastResponse'.state
              /\ reduxStore'.defined => lastResponse'.state = getState(reduxStore')
      ]_vars

\* an async action was answered after its diffs message went out: the two
\* patches together span the action, the response's diffs alone do not
C38_Witness ==
    /\ lastResponse.route = "action"
    /\ lastResponse.body = "dispatchRes"
    /\ lastResponse.shouldSendSocketUpdate
    /\ reduxStore.defined
    /\ lastResponse.state = getState(reduxStore)
    /\ lastResponse.after # lastResponse.initial
    /\ applyPatch(lastResponse.initial, lastResponse.diffs) # lastResponse.state

\* lockDevice() has dropped the store: the device is locked, or the timer's
\* lockDevice() awaits lock()
LockUnderWay == locked \/ ~reduxStore.defined

\* C40: when a dispatch settles for a request that awaited it while the
\* device was locked, by the timer or by a LOCK_DEVICE, the step leaves the
\* device as locked as it was, the store absent, the persisted state as it
\* was, no lockout timer armed and the org sockets no more open than
\* before.
C40_SettleAfterLockChangesNothing ==
    [][ \A i \in 1..Len(pending), success \in BOOLEAN :
          (LockUnderWay /\ FinishAction(i, success)) =>
              /\ locked' = locked
              /\ ~reduxStore'.defined
              /\ persisted' = persisted
              /\ lockoutTimeout' = 0
              /\ orgSocketsOpen' = orgSocketsOpen
              /\ lastSocketMsg' = NoSocketMsg
      ]_vars

\* the device was locked while a CONNECT_BLOCKS awaited its dispatch, and the
\* dispatch has since settled
C40_Witness ==
    /\ locked /\ ~reduxStore.defined
    /\ lastResponse.route = "action"
    /\ lastResponse.type = "CONNECT_BLOCKS"
    /\ ~lastResponse.lockedOnArrival
    /\ lastResponse.body = "TypeError"
    /\ pending = << >>
    /\ lockoutTimeout = 0
    /\ ~orgSocketsOpen

====
